---- MODULE Spec2Model ----
(***************************************************************************)
(* rust-launchagent: the LaunchAgent descriptor, its derive_builder        *)
(* builder, the constructors LaunchAgent::new / new_with_args and          *)
(* LaunchAgent::save, which renders the descriptor as an XML property list *)
(* under <out_dir>/<label>.plist.                                          *)
(*                                                                         *)
(* Rust strings that the program takes apart (labels, directories, field   *)
(* names, plist keys) are sequences of one-character strings.  A rendered  *)
(* plist is the sequence of XML elements the plist writer emits.           *)
(***************************************************************************)
EXTENDS Integers, Sequences, FiniteSets, TLC

VARIABLES builder, agent, fs, call, ncalls, nsaves,
          resourceLimitsBuilder, resourceLimits,
          calendarIntervalBuilder, calendarInterval,
          machServiceBuilder, machService, savers

\* the builder of a mach service and what its build() returned; the save
\* calls that run side by side
rest == <<machServiceBuilder, machService, savers>>

parts == <<resourceLimitsBuilder, resourceLimits,
           calendarIntervalBuilder, calendarInterval, rest>>

vars == <<builder, agent, fs, call, ncalls, nsaves, parts>>

(* ------------------------------ bounds --------------------------------- *)

\* builder setter calls in one builder chain
MaxSetterCalls == 2

\* elements of an argument vector handed to new_with_args
MaxArgs == 2

\* save calls in one run
MaxSaves == 2

(* ------------------------------ strings -------------------------------- *)

Lower ==
  <<"a","b","c","d","e","f","g","h","i","j","k","l","m",
    "n","o","p","q","r","s","t","u","v","w","x","y","z">>

Upper ==
  <<"A","B","C","D","E","F","G","H","I","J","K","L","M",
    "N","O","P","Q","R","S","T","U","V","W","X","Y","Z">>

\* char::to_ascii_uppercase
ToAsciiUppercase(ch) ==
  IF \E i \in 1..Len(Lower) : Lower[i] = ch
    THEN Upper[CHOOSE i \in 1..Len(Lower) : Lower[i] = ch]
    ELSE ch

RECURSIVE PascalFrom(_, _, _)
PascalFrom(field, i, capitalize) ==
  IF i > Len(field) THEN <<>>
  ELSE IF field[i] = "_" THEN PascalFrom(field, i + 1, TRUE)
  ELSE IF capitalize
    THEN <<ToAsciiUppercase(field[i])>> \o PascalFrom(field, i + 1, FALSE)
    ELSE <<field[i]>> \o PascalFrom(field, i + 1, FALSE)

\* serde's rename_all = "PascalCase" applied to a snake_case field name
PascalCase(field) ==
  PascalFrom(field, 1, TRUE)

\* a slip: the serde(rename) attribute of a field is not honoured
SerdeKeyIgnoringRename(rule, name, rename) ==
  IF rule = "PascalCase" THEN PascalCase(name) ELSE name

\* the key a derived Serialize gives a field: an explicit serde(rename)
\* wins over the container's rename_all rule
SerdeKey(rule, name, rename) ==
  IF rename /= <<>> THEN rename
  ELSE IF rule = "PascalCase" THEN PascalCase(name)
  ELSE name

(* ------------------- the serde data model of a value ------------------- *)

None ==
  [k |-> "none"]

Some(v) ==
  [k |-> "some", v |-> v]

VBool(b) ==
  [k |-> "bool", b |-> b]

VInt(n) ==
  [k |-> "int", n |-> n]

VReal(n) ==
  [k |-> "real", n |-> n]

VStr(s) ==
  [k |-> "str", s |-> s]

VSeq(items) ==
  [k |-> "seq", items |-> items]

\* entries: a sequence of <<key, value>>
VMap(entries) ==
  [k |-> "map", entries |-> entries]

\* fields: a sequence of [name, rename, v] in declaration order
VStruct(rule, fields) ==
  [k |-> "struct", rule |-> rule, fields |-> fields]

VUnitVariant(name) ==
  [k |-> "unit_variant", name |-> name]

VNewtypeVariant(name, v) ==
  [k |-> "newtype_variant", name |-> name, v |-> v]

VStructVariant(name, rule, fields) ==
  [k |-> "struct_variant", name |-> name, rule |-> rule, fields |-> fields]

Field(name, rename, v) ==
  [name |-> name, rename |-> rename, v |-> v]

(* ---------------------- the fields of LaunchAgent --------------------- *)

FieldOrder ==
  << "disabled",
     "user_name",
     "group_name",
     "inetd_compatibility",
     "limit_load_to_hosts",
     "limit_load_from_hosts",
     "limit_load_to_session_type",
     "limit_load_to_hardware",
     "limit_load_from_hardware",
     "program",
     "bundle_program",
     "program_arguments",
     "enable_globbing",
     "enable_transactions",
     "enable_pressured_exit",
     "on_demand",
     "service_ipc",
     "keep_alive",
     "run_at_load",
     "root_directory",
     "working_directory",
     "environment_variables",
     "umask",
     "time_out",
     "exit_time_out",
     "throttle_interval",
     "init_groups",
     "watch_paths",
     "queue_directories",
     "start_on_mount",
     "start_interval",
     "start_calendar_interval",
     "standard_in_path",
     "standard_out_path",
     "standard_error_path",
     "debug",
     "wait_for_debugger",
     "soft_resource_limits",
     "hard_resource_limits",
     "nice",
     "process_type",
     "abandon_process_group",
     "low_priority_io",
     "low_priority_background_io",
     "materialized_dataless_files",
     "launch_only_once",
     "mach_services",
     "sockets",
     "launch_events",
     "hopefully_exits_last",
     "hopefully_exits_first",
     "session_create",
     "legacy_timers",
     "associated_bundle_identifiers" >>

FieldName ==
  [ disabled |-> <<"d", "i", "s", "a", "b", "l", "e", "d">>,
    user_name |-> <<"u", "s", "e", "r", "_", "n", "a", "m", "e">>,
    group_name |-> <<"g", "r", "o", "u", "p", "_", "n", "a", "m", "e">>,
    inetd_compatibility |-> <<"i", "n", "e", "t", "d", "_", "c", "o", "m", "p", "a", "t", "i", "b", "i", "l", "i", "t", "y">>,
    limit_load_to_hosts |-> <<"l", "i", "m", "i", "t", "_", "l", "o", "a", "d", "_", "t", "o", "_", "h", "o", "s", "t", "s">>,
    limit_load_from_hosts |-> <<"l", "i", "m", "i", "t", "_", "l", "o", "a", "d", "_", "f", "r", "o", "m", "_", "h", "o", "s", "t", "s">>,
    limit_load_to_session_type |-> <<"l", "i", "m", "i", "t", "_", "l", "o", "a", "d", "_", "t", "o", "_", "s", "e", "s", "s", "i", "o", "n", "_", "t", "y", "p", "e">>,
    limit_load_to_hardware |-> <<"l", "i", "m", "i", "t", "_", "l", "o", "a", "d", "_", "t", "o", "_", "h", "a", "r", "d", "w", "a", "r", "e">>,
    limit_load_from_hardware |-> <<"l", "i", "m", "i", "t", "_", "l", "o", "a", "d", "_", "f", "r", "o", "m", "_", "h", "a", "r", "d", "w", "a", "r", "e">>,
    program |-> <<"p", "r", "o", "g", "r", "a", "m">>,
    bundle_program |-> <<"b", "u", "n", "d", "l", "e", "_", "p", "r", "o", "g", "r", "a", "m">>,
    program_arguments |-> <<"p", "r", "o", "g", "r", "a", "m", "_", "a", "r", "g", "u", "m", "e", "n", "t", "s">>,
    enable_globbing |-> <<"e", "n", "a", "b", "l", "e", "_", "g", "l", "o", "b", "b", "i", "n", "g">>,
    enable_transactions |-> <<"e", "n", "a", "b", "l", "e", "_", "t", "r", "a", "n", "s", "a", "c", "t", "i", "o", "n", "s">>,
    enable_pressured_exit |-> <<"e", "n", "a", "b", "l", "e", "_", "p", "r", "e", "s", "s", "u", "r", "e", "d", "_", "e", "x", "i", "t">>,
    on_demand |-> <<"o", "n", "_", "d", "e", "m", "a", "n", "d">>,
    service_ipc |-> <<"s", "e", "r", "v", "i", "c", "e", "_", "i", "p", "c">>,
    keep_alive |-> <<"k", "e", "e", "p", "_", "a", "l", "i", "v", "e">>,
    run_at_load |-> <<"r", "u", "n", "_", "a", "t", "_", "l", "o", "a", "d">>,
    root_directory |-> <<"r", "o", "o", "t", "_", "d", "i", "r", "e", "c", "t", "o", "r", "y">>,
    working_directory |-> <<"w", "o", "r", "k", "i", "n", "g", "_", "d", "i", "r", "e", "c", "t", "o", "r", "y">>,
    environment_variables |-> <<"e", "n", "v", "i", "r", "o", "n", "m", "e", "n", "t", "_", "v", "a", "r", "i", "a", "b", "l", "e", "s">>,
    umask |-> <<"u", "m", "a", "s", "k">>,
    time_out |-> <<"t", "i", "m", "e", "_", "o", "u", "t">>,
    exit_time_out |-> <<"e", "x", "i", "t", "_", "t", "i", "m", "e", "_", "o", "u", "t">>,
    throttle_interval |-> <<"t", "h", "r", "o", "t", "t", "l", "e", "_", "i", "n", "t", "e", "r", "v", "a", "l">>,
    init_groups |-> <<"i", "n", "i", "t", "_", "g", "r", "o", "u", "p", "s">>,
    watch_paths |-> <<"w", "a", "t", "c", "h", "_", "p", "a", "t", "h", "s">>,
    queue_directories |-> <<"q", "u", "e", "u", "e", "_", "d", "i", "r", "e", "c", "t", "o", "r", "i", "e", "s">>,
    start_on_mount |-> <<"s", "t", "a", "r", "t", "_", "o", "n", "_", "m", "o", "u", "n", "t">>,
    start_interval |-> <<"s", "t", "a", "r", "t", "_", "i", "n", "t", "e", "r", "v", "a", "l">>,
    start_calendar_interval |-> <<"s", "t", "a", "r", "t", "_", "c", "a", "l", "e", "n", "d", "a", "r", "_", "i", "n", "t", "e", "r", "v", "a", "l">>,
    standard_in_path |-> <<"s", "t", "a", "n", "d", "a", "r", "d", "_", "i", "n", "_", "p", "a", "t", "h">>,
    standard_out_path |-> <<"s", "t", "a", "n", "d", "a", "r", "d", "_", "o", "u", "t", "_", "p", "a", "t", "h">>,
    standard_error_path |-> <<"s", "t", "a", "n", "d", "a", "r", "d", "_", "e", "r", "r", "o", "r", "_", "p", "a", "t", "h">>,
    debug |-> <<"d", "e", "b", "u", "g">>,
    wait_for_debugger |-> <<"w", "a", "i", "t", "_", "f", "o", "r", "_", "d", "e", "b", "u", "g", "g", "e", "r">>,
    soft_resource_limits |-> <<"s", "o", "f", "t", "_", "r", "e", "s", "o", "u", "r", "c", "e", "_", "l", "i", "m", "i", "t", "s">>,
    hard_resource_limits |-> <<"h", "a", "r", "d", "_", "r", "e", "s", "o", "u", "r", "c", "e", "_", "l", "i", "m", "i", "t", "s">>,
    nice |-> <<"n", "i", "c", "e">>,
    process_type |-> <<"p", "r", "o", "c", "e", "s", "s", "_", "t", "y", "p", "e">>,
    abandon_process_group |-> <<"a", "b", "a", "n", "d", "o", "n", "_", "p", "r", "o", "c", "e", "s", "s", "_", "g", "r", "o", "u", "p">>,
    low_priority_io |-> <<"l", "o", "w", "_", "p", "r", "i", "o", "r", "i", "t", "y", "_", "i", "o">>,
    low_priority_background_io |-> <<"l", "o", "w", "_", "p", "r", "i", "o", "r", "i", "t", "y", "_", "b", "a", "c", "k", "g", "r", "o", "u", "n", "d", "_", "i", "o">>,
    materialized_dataless_files |-> <<"m", "a", "t", "e", "r", "i", "a", "l", "i", "z", "e", "d", "_", "d", "a", "t", "a", "l", "e", "s", "s", "_", "f", "i", "l", "e", "s">>,
    launch_only_once |-> <<"l", "a", "u", "n", "c", "h", "_", "o", "n", "l", "y", "_", "o", "n", "c", "e">>,
    mach_services |-> <<"m", "a", "c", "h", "_", "s", "e", "r", "v", "i", "c", "e", "s">>,
    sockets |-> <<"s", "o", "c", "k", "e", "t", "s">>,
    launch_events |-> <<"l", "a", "u", "n", "c", "h", "_", "e", "v", "e", "n", "t", "s">>,
    hopefully_exits_last |-> <<"h", "o", "p", "e", "f", "u", "l", "l", "y", "_", "e", "x", "i", "t", "s", "_", "l", "a", "s", "t">>,
    hopefully_exits_first |-> <<"h", "o", "p", "e", "f", "u", "l", "l", "y", "_", "e", "x", "i", "t", "s", "_", "f", "i", "r", "s", "t">>,
    session_create |-> <<"s", "e", "s", "s", "i", "o", "n", "_", "c", "r", "e", "a", "t", "e">>,
    legacy_timers |-> <<"l", "e", "g", "a", "c", "y", "_", "t", "i", "m", "e", "r", "s">>,
    associated_bundle_identifiers |-> <<"a", "s", "s", "o", "c", "i", "a", "t", "e", "d", "_", "b", "u", "n", "d", "l", "e", "_", "i", "d", "e", "n", "t", "i", "f", "i", "e", "r", "s">> ]

FieldType ==
  [ disabled |-> "bool",
    user_name |-> "String",
    group_name |-> "String",
    inetd_compatibility |-> "InetdCompatibility",
    limit_load_to_hosts |-> "VecString",
    limit_load_from_hosts |-> "VecString",
    limit_load_to_session_type |-> "SessionType",
    limit_load_to_hardware |-> "MapVecString",
    limit_load_from_hardware |-> "MapVecString",
    program |-> "String",
    bundle_program |-> "String",
    program_arguments |-> "VecString",
    enable_globbing |-> "bool",
    enable_transactions |-> "bool",
    enable_pressured_exit |-> "bool",
    on_demand |-> "bool",
    service_ipc |-> "bool",
    keep_alive |-> "KeepAlive",
    run_at_load |-> "bool",
    root_directory |-> "String",
    working_directory |-> "String",
    environment_variables |-> "MapString",
    umask |-> "StringOrF32",
    time_out |-> "u32",
    exit_time_out |-> "u32",
    throttle_interval |-> "u32",
    init_groups |-> "bool",
    watch_paths |-> "VecString",
    queue_directories |-> "VecString",
    start_on_mount |-> "bool",
    start_interval |-> "u32",
    start_calendar_interval |-> "VecCalendarInterval",
    standard_in_path |-> "String",
    standard_out_path |-> "String",
    standard_error_path |-> "String",
    debug |-> "bool",
    wait_for_debugger |-> "bool",
    soft_resource_limits |-> "ResourceLimits",
    hard_resource_limits |-> "ResourceLimits",
    nice |-> "i8",
    process_type |-> "ProcessType",
    abandon_process_group |-> "bool",
    low_priority_io |-> "bool",
    low_priority_background_io |-> "bool",
    materialized_dataless_files |-> "bool",
    launch_only_once |-> "bool",
    mach_services |-> "MapMachServiceConfig",
    sockets |-> "MapSocketValue",
    launch_events |-> "LaunchEvents",
    hopefully_exits_last |-> "String",
    hopefully_exits_first |-> "String",
    session_create |-> "bool",
    legacy_timers |-> "bool",
    associated_bundle_identifiers |-> "StringOrVec" ]

SerdeRename ==
  [ service_ipc |-> <<"S", "e", "r", "v", "i", "c", "e", "I", "P", "C">>,
    low_priority_io |-> <<"L", "o", "w", "P", "r", "i", "o", "r", "i", "t", "y", "I", "O">>,
    low_priority_background_io |-> <<"L", "o", "w", "P", "r", "i", "o", "r", "i", "t", "y", "B", "a", "c", "k", "g", "r", "o", "u", "n", "d", "I", "O">> ]

(* --------------------- the value types of the schema -------------------- *)

StrA ==
  <<"a">>

StrB ==
  <<"b">>

\* ipc.rs InetdCompatibility { wait: Option<bool> }, rename_all PascalCase
InetdCompatibility(wait) ==
  VStruct("PascalCase", << Field(<<"w","a","i","t">>, <<>>, wait) >>)

\* constraints.rs SessionType, untagged: the variant's content, bare
SessionTypeSingle(s) ==
  VStr(s)

SessionTypeMany(items) ==
  VSeq(items)

\* keep_alive.rs KeepAlive, externally tagged, variants renamed PascalCase
KeepAliveBool(b) ==
  VNewtypeVariant(<<"B","o","o","l">>, VBool(b))

\* the Object variant: its fields keep their Rust names (rename_all on an
\* enum renames the variants only)
KeepAliveObject(successful_exit, crashed) ==
  VStructVariant(<<"O","b","j","e","c","t">>, "None",
      << Field(<<"s","u","c","c","e","s","s","f","u","l","_","e","x","i","t">>,
               <<>>, successful_exit),
         Field(<<"n","e","t","w","o","r","k","_","s","t","a","t","e">>, <<>>, None),
         Field(<<"p","a","t","h","_","s","t","a","t","e">>, <<>>, None),
         Field(<<"o","t","h","e","r","_","j","o","b","_","e","n","a","b","l","e","d">>,
               <<>>, None),
         Field(<<"c","r","a","s","h","e","d">>, <<>>, crashed) >>)

\* unions.rs StringOrF32, untagged
StringOrF32String(s) ==
  VStr(s)

StringOrF32Integer(x) ==
  VReal(x)

\* unions.rs StringOrVec, untagged
StringOrVecString(s) ==
  VStr(s)

StringOrVecVec(items) ==
  VSeq(items)

\* triggers.rs CalendarInterval, rename_all PascalCase
CalendarInterval(minute, hour, day, weekday, month) ==
  VStruct("PascalCase",
    << Field(<<"m","i","n","u","t","e">>, <<>>, minute),
       Field(<<"h","o","u","r">>, <<>>, hour),
       Field(<<"d","a","y">>, <<>>, day),
       Field(<<"w","e","e","k","d","a","y">>, <<>>, weekday),
       Field(<<"m","o","n","t","h">>, <<>>, month) >>)

\* a slip: the values of core and data change places
ResourceLimitsCoreDataSwapped(core, cpu, data, file_size, memory_lock, number_of_files, number_of_processes, resident_set_size, stack) ==
  VStruct("PascalCase",
    << Field(<<"c","o","r","e">>, <<>>, data),
       Field(<<"c","p","u">>, <<"C","P","U">>, cpu),
       Field(<<"d","a","t","a">>, <<>>, core),
       Field(<<"f","i","l","e","_","s","i","z","e">>, <<>>, file_size),
       Field(<<"m","e","m","o","r","y","_","l","o","c","k">>, <<>>, memory_lock),
       Field(<<"n","u","m","b","e","r","_","o","f","_","f","i","l","e","s">>,
             <<>>, number_of_files),
       Field(<<"n","u","m","b","e","r","_","o","f","_","p","r","o","c","e","s","s","e","s">>,
             <<>>, number_of_processes),
       Field(<<"r","e","s","i","d","e","n","t","_","s","e","t","_","s","i","z","e">>,
             <<>>, resident_set_size),
       Field(<<"s","t","a","c","k">>, <<>>, stack) >>)

\* constraints.rs ResourceLimits, rename_all PascalCase, cpu renamed CPU
ResourceLimits(core, cpu, data, file_size, memory_lock, number_of_files, number_of_processes, resident_set_size, stack) ==
  VStruct("PascalCase",
    << Field(<<"c","o","r","e">>, <<>>, core),
       Field(<<"c","p","u">>, <<"C","P","U">>, cpu),
       Field(<<"d","a","t","a">>, <<>>, data),
       Field(<<"f","i","l","e","_","s","i","z","e">>, <<>>, file_size),
       Field(<<"m","e","m","o","r","y","_","l","o","c","k">>, <<>>, memory_lock),
       Field(<<"n","u","m","b","e","r","_","o","f","_","f","i","l","e","s">>,
             <<>>, number_of_files),
       Field(<<"n","u","m","b","e","r","_","o","f","_","p","r","o","c","e","s","s","e","s">>,
             <<>>, number_of_processes),
       Field(<<"r","e","s","i","d","e","n","t","_","s","e","t","_","s","i","z","e">>,
             <<>>, resident_set_size),
       Field(<<"s","t","a","c","k">>, <<>>, stack) >>)

\* constraints.rs ProcessType: a unit variant, written as its name
ProcessTypeBackground ==
  VUnitVariant(<<"B","a","c","k","g","r","o","u","n","d">>)

\* mach_service.rs MachServiceConfig, externally tagged
MachServiceConfigBool(b) ==
  VNewtypeVariant(<<"B","o","o","l">>, VBool(b))

\* ipc.rs Socket with only `passive` possibly set; SocketValue is untagged
SocketPassive(passive) ==
  VStruct("PascalCase",
    << Field(<<"p","a","s","s","i","v","e">>,
             <<"S","o","c","k","P","a","s","s","i","v","e">>, passive) >>)

\* ipc.rs Socket, rename_all PascalCase, ten fields renamed Sock*
Socket(socket_type, passive, node_name, service_name, family, protocol, path_name, secure_socket_with_key, path_owner, path_group, path_mode, bonjour, multicast_group) ==
  VStruct("PascalCase",
    << Field(<<"s","o","c","k","e","t","_","t","y","p","e">>,
             <<"S","o","c","k","T","y","p","e">>, socket_type),
       Field(<<"p","a","s","s","i","v","e">>,
             <<"S","o","c","k","P","a","s","s","i","v","e">>, passive),
       Field(<<"n","o","d","e","_","n","a","m","e">>,
             <<"S","o","c","k","N","o","d","e","N","a","m","e">>, node_name),
       Field(<<"s","e","r","v","i","c","e","_","n","a","m","e">>,
             <<"S","o","c","k","S","e","r","v","i","c","e","N","a","m","e">>, service_name),
       Field(<<"f","a","m","i","l","y">>,
             <<"S","o","c","k","F","a","m","i","l","y">>, family),
       Field(<<"p","r","o","t","o","c","o","l">>,
             <<"S","o","c","k","P","r","o","t","o","c","o","l">>, protocol),
       Field(<<"p","a","t","h","_","n","a","m","e">>,
             <<"S","o","c","k","P","a","t","h","N","a","m","e">>, path_name),
       Field(<<"s","e","c","u","r","e","_","s","o","c","k","e","t","_","w","i","t","h","_","k","e","y">>,
             <<>>, secure_socket_with_key),
       Field(<<"p","a","t","h","_","o","w","n","e","r">>,
             <<"S","o","c","k","P","a","t","h","O","w","n","e","r">>, path_owner),
       Field(<<"p","a","t","h","_","g","r","o","u","p">>,
             <<"S","o","c","k","P","a","t","h","G","r","o","u","p">>, path_group),
       Field(<<"p","a","t","h","_","m","o","d","e">>,
             <<"S","o","c","k","P","a","t","h","M","o","d","e">>, path_mode),
       Field(<<"b","o","n","j","o","u","r">>,
             <<>>, bonjour),
       Field(<<"m","u","l","t","i","c","a","s","t","_","g","r","o","u","p">>,
             <<>>, multicast_group) >>)

\* the values a setter is called with, per field type
SampleValues(ty) ==
  CASE ty = "bool" -> {VBool(FALSE)}
    [] ty = "String" -> {VStr(StrA)}
    [] ty = "u32" -> {VInt(0)}
    [] ty = "i8" -> {VInt(-1)}
    [] ty = "VecString" -> {VSeq(<<>>)}
    [] ty = "InetdCompatibility" -> {InetdCompatibility(Some(VBool(TRUE)))}
    [] ty = "SessionType" ->
         {SessionTypeSingle(StrA), SessionTypeMany(<<VStr(StrA)>>)}
    [] ty = "MapVecString" -> {VMap(<< <<StrA, VSeq(<<VStr(StrB)>>)>> >>)}
    [] ty = "KeepAlive" ->
         {KeepAliveBool(TRUE), KeepAliveObject(None, Some(VBool(TRUE)))}
    [] ty = "MapString" -> {VMap(<< <<StrA, VStr(StrB)>> >>)}
    [] ty = "StringOrF32" -> {StringOrF32String(StrA), StringOrF32Integer(18)}
    [] ty = "VecCalendarInterval" ->
         {VSeq(<< CalendarInterval(Some(VInt(5)), None, None, None, None) >>)}
    [] ty = "ResourceLimits" ->
         {ResourceLimits(None, Some(VInt(1)), None, None, None, None, None, None, None)}
    [] ty = "ProcessType" -> {ProcessTypeBackground}
    [] ty = "MapMachServiceConfig" ->
         {VMap(<< <<StrA, MachServiceConfigBool(TRUE)>> >>)}
    [] ty = "MapSocketValue" ->
         {VMap(<< <<StrA, SocketPassive(Some(VBool(TRUE)))>> >>)}
    [] ty = "LaunchEvents" ->
         {VMap(<< <<StrA, VMap(<< <<StrA, VMap(<< <<StrA, VStr(StrB)>> >>)>> >>)>> >>)}
    [] ty = "StringOrVec" ->
         {StringOrVecString(StrA), StringOrVecVec(<<VStr(StrA)>>)}


\* mach_service.rs MachService: two plain bool fields, PascalCase keys
MachService(reset_at_close, hide_until_check_in) ==
  VStruct("PascalCase",
    << Field(<<"r","e","s","e","t","_","a","t","_","c","l","o","s","e">>,
             <<>>, reset_at_close),
       Field(<<"h","i","d","e","_","u","n","t","i","l","_","c","h","e","c","k","_","i","n">>,
             <<>>, hide_until_check_in) >>)

\* mach_service.rs MachServiceConfig::Object
MachServiceConfigObject(service) ==
  VNewtypeVariant(<<"O","b","j","e","c","t">>, service)
(* ------------------------- the plist serializer ------------------------ *)

RECURSIVE SerValue(_), SerFields(_, _, _), SerItems(_, _), SerEntries(_, _)

\* a slip: an unset field is written as an empty string
SerAbsentFieldAsEmptyString(key) ==
  << <<"key", key>>, <<"string", <<>>>> >>

\* a struct field holding None writes nothing, not even its key
SerAbsentField(key) ==
  <<>>

\* SerializeStruct::serialize_field: the key, then the value, unless the
\* value is None
SerStructField(key, v) ==
  CASE v.k = "none" -> SerAbsentField(key)
    [] v.k = "some" -> << <<"key", key>> >> \o SerValue(v.v)
    [] OTHER        -> << <<"key", key>> >> \o SerValue(v)

\* fields i.. of a struct, in declaration order
SerFields(rule, fields, i) ==
  IF i > Len(fields) THEN <<>>
  ELSE SerStructField(SerdeKey(rule, fields[i].name, fields[i].rename), fields[i].v)
       \o SerFields(rule, fields, i + 1)

SerItems(items, i) ==
  IF i > Len(items) THEN <<>>
  ELSE SerValue(items[i]) \o SerItems(items, i + 1)

SerEntries(entries, i) ==
  IF i > Len(entries) THEN <<>>
  ELSE << <<"key", entries[i][1]>> >> \o SerValue(entries[i][2])
       \o SerEntries(entries, i + 1)

\* the XML elements plist's Serializer writes for one value
SerValue(v) ==
  CASE v.k = "bool"   -> IF v.b THEN << <<"true">> >> ELSE << <<"false">> >>
    [] v.k = "int"    -> << <<"integer", v.n>> >>
    [] v.k = "real"   -> << <<"real", v.n>> >>
    [] v.k = "str"    -> << <<"string", v.s>> >>
    [] v.k = "seq"    ->
         << <<"array">> >> \o SerItems(v.items, 1) \o << <<"end">> >>
    [] v.k = "map"    ->
         << <<"dict">> >> \o SerEntries(v.entries, 1) \o << <<"end">> >>
    [] v.k = "struct" ->
         << <<"dict">> >> \o SerFields(v.rule, v.fields, 1) \o << <<"end">> >>
    [] v.k = "unit_variant" -> << <<"string", v.name>> >>
    [] v.k = "newtype_variant" ->
         << <<"dict">>, <<"key", v.name>> >> \o SerValue(v.v) \o << <<"end">> >>
    [] v.k = "struct_variant" ->
         << <<"dict">>, <<"key", v.name>>, <<"dict">> >>
         \o SerFields(v.rule, v.fields, 1) \o << <<"end">>, <<"end">> >>
    [] v.k = "some"   -> SerValue(v.v)

(* ----------------------- LaunchAgent and its builder -------------------- *)

FieldIds ==
  {FieldOrder[i] : i \in 1..Len(FieldOrder)}

\* String::default()
EmptyString ==
  <<>>

\* LaunchAgent::default(): the derived Default
LaunchAgentDefault ==
  [label |-> EmptyString, opt |-> [f \in FieldIds |-> None]]

\* LaunchAgentBuilder::default(): no field assigned yet
LaunchAgentBuilderDefault ==
  [label |-> None, opt |-> [f \in FieldIds |-> None]]

\* LaunchAgentBuilder::label
SetLabel(b, label) ==
  [b EXCEPT !.label = Some(label)]

\* a slip: a setter that starts from a fresh builder
SetFieldOnDefault(b, f, value) ==
  [LaunchAgentBuilderDefault EXCEPT !.opt[f] = Some(Some(value))]

\* a slip: a setter that keeps the value a slot already holds
SetFieldFirstWins(b, f, value) ==
  IF b.opt[f] /= None THEN b ELSE [b EXCEPT !.opt[f] = Some(Some(value))]

\* a generated setter with setter(into, strip_option): the builder slot
\* becomes Some(Some(value))
SetField(b, f, value) ==
  [b EXCEPT !.opt[f] = Some(Some(value))]

\* a slip: the element-wise setter starts a new list each time
PushProgramArgumentReplacing(b, item) ==
  [b EXCEPT !.opt["program_arguments"] = Some(Some(VSeq(<<VStr(item)>>)))]

\* the generated element-wise setter program_argument: the argument list is
\* created empty if the slot is unset, then extended by one element
PushProgramArgument(b, item) ==
  LET slot == b.opt["program_arguments"]
      old  == IF slot.k = "some" /\ slot.v.k = "some" THEN slot.v.v.items ELSE <<>>
  IN  [b EXCEPT !.opt["program_arguments"] = Some(Some(VSeq(Append(old, VStr(item)))))]

\* a slip: a build that insists on a program or an argument list
BuilderBuildValidating(b) ==
  IF b.opt["program"] = None /\ b.opt["program_arguments"] = None
  THEN [ok |-> FALSE, v |-> LaunchAgentDefault]
  ELSE [ok |-> TRUE,
        v  |-> [label |-> IF b.label.k = "some" THEN b.label.v
                          ELSE LaunchAgentDefault.label,
                opt   |-> [f \in FieldIds |->
                             IF b.opt[f].k = "some" THEN b.opt[f].v
                             ELSE LaunchAgentDefault.opt[f]]]]

\* LaunchAgentBuilder::build with builder(default): a slot that was never
\* assigned takes the field of LaunchAgent::default(); it never fails
BuilderBuild(b) ==
  [ok |-> TRUE,
   v  |-> [label |-> IF b.label.k = "some" THEN b.label.v
                     ELSE LaunchAgentDefault.label,
           opt   |-> [f \in FieldIds |->
                        IF b.opt[f].k = "some" THEN b.opt[f].v
                        ELSE LaunchAgentDefault.opt[f]]]]

\* a slip: new hands the path to program_arguments
NewResultAsArguments(label, program) ==
  BuilderBuild(SetField(SetLabel(LaunchAgentBuilderDefault, label),
                        "program_arguments", VSeq(<<VStr(program)>>)))

\* LaunchAgent::new before the unwrap
NewResult(label, program) ==
  BuilderBuild(SetField(SetLabel(LaunchAgentBuilderDefault, label),
                        "program", VStr(program)))

\* a slip: the arguments are collected back to front
RECURSIVE MapStringFromReversed(_, _)
MapStringFromReversed(args, i) ==
  IF i > Len(args) THEN <<>>
  ELSE MapStringFromReversed(args, i + 1) \o <<VStr(args[i])>>

\* program_arguments.into_iter().map(String::from).collect()
RECURSIVE MapStringFrom(_, _)
MapStringFrom(args, i) ==
  IF i > Len(args) THEN <<>>
  ELSE <<VStr(args[i])>> \o MapStringFrom(args, i + 1)

\* LaunchAgent::new_with_args before the unwrap
NewWithArgsResult(label, program_arguments) ==
  BuilderBuild(SetField(SetLabel(LaunchAgentBuilderDefault, label),
                        "program_arguments",
                        VSeq(MapStringFrom(program_arguments, 1))))

\* the keys derive(Serialize) with rename_all = "PascalCase" gives the
\* fields of LaunchAgent
LabelKey ==
  SerdeKey("PascalCase", <<"l", "a", "b", "e", "l">>, <<>>)

LaunchAgentKey ==
  [f \in FieldIds |->
     SerdeKey("PascalCase", FieldName[f],
              IF f \in DOMAIN SerdeRename THEN SerdeRename[f] ELSE <<>>)]

\* the derived Serialize of LaunchAgent from its i-th optional field on,
\* in declaration order
RECURSIVE SerLaunchAgentFrom(_, _)
SerLaunchAgentFrom(a, i) ==
  IF i > Len(FieldOrder) THEN <<>>
  ELSE SerStructField(LaunchAgentKey[FieldOrder[i]], a.opt[FieldOrder[i]])
       \o SerLaunchAgentFrom(a, i + 1)

\* the document plist::to_file_xml writes for a descriptor: a dictionary
\* holding Label and then the optional fields
Render(a) ==
  << <<"dict">> >> \o SerStructField(LabelKey, VStr(a.label))
  \o SerLaunchAgentFrom(a, 1) \o << <<"end">> >>

(* ------------------ the builders of the sub-entities ------------------- *)

\* the fields of ResourceLimits, in declaration order
ResourceLimitsFields ==
  << "core", "cpu", "data", "file_size", "memory_lock", "number_of_files",
     "number_of_processes", "resident_set_size", "stack" >>

\* the fields of CalendarInterval, in declaration order
CalendarIntervalFields ==
  << "minute", "hour", "day", "weekday", "month" >>

SeqRange(s) ==
  {s[i] : i \in 1..Len(s)}

\* ResourceLimitsBuilder::default(): no field assigned yet
ResourceLimitsBuilderDefault ==
  [f \in SeqRange(ResourceLimitsFields) |-> None]

\* CalendarIntervalBuilder::default()
CalendarIntervalBuilderDefault ==
  [f \in SeqRange(CalendarIntervalFields) |-> None]

\* a generated setter of a sub-entity builder, setter(into, strip_option):
\* the slot becomes Some(Some(value))
PartSetField(b, f, value) ==
  [b EXCEPT ![f] = Some(Some(value))]

\* the first field, in declaration order, whose slot was never assigned;
\* 0 if every slot was
FirstUninitialized(b, order) ==
  LET missing == {i \in 1..Len(order) : b[order[i]] = None}
  IN  IF missing = {} THEN 0
      ELSE CHOOSE i \in missing : \A j \in missing : i <= j

\* the error the generated build() returns for a slot that was never
\* assigned: these builders carry no builder(default)
UninitializedField(field) ==
  [ok |-> FALSE, err |-> [kind |-> "UninitializedField", field |-> field]]

\* ResourceLimitsBuilder::build: every field must have been assigned
ResourceLimitsBuilderBuild(b) ==
  LET i == FirstUninitialized(b, ResourceLimitsFields)
  IN  IF i /= 0 THEN UninitializedField(ResourceLimitsFields[i])
      ELSE [ok |-> TRUE,
            v  |-> ResourceLimits(b["core"].v, b["cpu"].v, b["data"].v,
                                  b["file_size"].v, b["memory_lock"].v,
                                  b["number_of_files"].v,
                                  b["number_of_processes"].v,
                                  b["resident_set_size"].v, b["stack"].v)]

\* CalendarIntervalBuilder::build: every field must have been assigned
CalendarIntervalBuilderBuild(b) ==
  LET i == FirstUninitialized(b, CalendarIntervalFields)
  IN  IF i /= 0 THEN UninitializedField(CalendarIntervalFields[i])
      ELSE [ok |-> TRUE,
            v  |-> CalendarInterval(b["minute"].v, b["hour"].v, b["day"].v,
                                    b["weekday"].v, b["month"].v)]

\* the value each limit is set to: nine different numbers
LimitValue ==
  [core |-> 11, cpu |-> 12, data |-> 13, file_size |-> 14, memory_lock |-> 15,
   number_of_files |-> 16, number_of_processes |-> 17,
   resident_set_size |-> 18, stack |-> 19]

\* the value each calendar field is set to
IntervalValue ==
  [minute |-> 30, hour |-> 6, day |-> 15, weekday |-> 1, month |-> 12]


\* the fields of MachService, in declaration order
MachServiceFields ==
  << "reset_at_close", "hide_until_check_in" >>

\* MachServiceBuilder::default()
MachServiceBuilderDefault ==
  [f \in SeqRange(MachServiceFields) |-> None]

\* a generated setter of MachServiceBuilder: the fields are plain bools,
\* the slot becomes Some(value)
MachServiceSetField(b, f, value) ==
  [b EXCEPT ![f] = Some(value)]

\* MachServiceBuilder::build: every field must have been assigned; the
\* serde(default) of the fields is not a builder default
MachServiceBuilderBuild(b) ==
  LET i == FirstUninitialized(b, MachServiceFields)
  IN  IF i /= 0 THEN UninitializedField(MachServiceFields[i])
      ELSE [ok |-> TRUE,
            v  |-> MachService(b["reset_at_close"].v,
                               b["hide_until_check_in"].v)]
(* -------------------------------- paths --------------------------------- *)

Sep ==
  "/"

DotPlist ==
  <<".", "p", "l", "i", "s", "t">>

\* format!("{}.plist", self.label)
FileNameOf(label) ==
  label \o DotPlist

\* PathBuf::from(out_dir).join(file): an absolute `file` replaces the
\* directory; otherwise a separator is added unless the directory is empty
\* or already ends in one
PathJoin(out_dir, file) ==
  IF file /= <<>> /\ file[1] = Sep THEN file
  ELSE IF out_dir /= <<>> /\ out_dir[Len(out_dir)] /= Sep
    THEN out_dir \o <<Sep>> \o file
    ELSE out_dir \o file

\* the components of a path string after position i, `cur` being the
\* component under construction: empty components and "." are dropped
\* (a leading "." of a relative path is kept, as Path::components does)
RECURSIVE SplitFrom(_, _, _, _)
SplitFrom(s, i, cur, first) ==
  LET keep == cur /= <<>> /\ (cur /= <<".">> \/ first)
  IN  IF i > Len(s) THEN (IF keep THEN <<cur>> ELSE <<>>)
      ELSE IF s[i] = Sep
        THEN (IF keep THEN <<cur>> ELSE <<>>)
             \o SplitFrom(s, i + 1, <<>>, first /\ cur = <<>>)
        ELSE SplitFrom(s, i + 1, Append(cur, s[i]), first)

\* a Path: whether it has a root, and its remaining components
PathOf(s) ==
  LET abs == s /= <<>> /\ s[1] = Sep
  IN  [abs |-> abs, comps |-> SplitFrom(s, 1, <<>>, ~abs)]

\* Path::parent: the path without its final component; None for the root
\* and for the empty path
PathParent(p) ==
  IF p.comps = <<>> THEN None
  ELSE Some([abs |-> p.abs, comps |-> SubSeq(p.comps, 1, Len(p.comps) - 1)])

(* ----------------------------- the filesystem --------------------------- *)

\* a location is the sequence of names from the root; fs maps the existing
\* locations to a directory [kind, w] or a regular file [kind, w, data]

Root ==
  <<>>

\* the working directory of the process
Cwd ==
  << <<"w">> >>

Dir(w) ==
  [kind |-> "dir", w |-> w]

File(data) ==
  [kind |-> "file", w |-> TRUE, data |-> data]

OldData ==
  << <<"string", <<"o", "l", "d">>>> >>

\* the filesystem the program starts in: a writable root and working
\* directory, a read-only directory /r, a regular file /f and a stale
\* j.plist in the working directory
InitialFs ==
  (Root :> Dir(TRUE)) @@ (Cwd :> Dir(TRUE))
  @@ (<< <<"r">> >> :> Dir(FALSE)) @@ (<< <<"f">> >> :> File(OldData))
  @@ (<< <<"w">>, <<"j", ".", "p", "l", "i", "s", "t">> >> :> File(OldData))

FsPut(f, loc, node) ==
  [l \in DOMAIN f \cup {loc} |-> IF l = loc THEN node ELSE f[l]]

\* one step of name resolution inside directory loc
StepInto(loc, comp) ==
  IF comp = <<".">> THEN loc
  ELSE IF comp = <<".", ".">>
    THEN (IF loc = Root THEN Root ELSE SubSeq(loc, 1, Len(loc) - 1))
    ELSE Append(loc, comp)

\* the kernel's lookup of comps[i..] from loc: every directory on the way
\* must exist and be a directory
RECURSIVE WalkFrom(_, _, _, _)
WalkFrom(f, loc, comps, i) ==
  IF loc \notin DOMAIN f THEN [err |-> "ENOENT", loc |-> loc]
  ELSE IF i > Len(comps) THEN [err |-> "OK", loc |-> loc]
  ELSE IF f[loc].kind /= "dir" THEN [err |-> "ENOTDIR", loc |-> loc]
  ELSE WalkFrom(f, StepInto(loc, comps[i]), comps, i + 1)

\* stat(2)
Stat(f, p) ==
  WalkFrom(f, IF p.abs THEN Root ELSE Cwd, p.comps, 1)

\* Path::is_dir
IsDir(f, p) ==
  LET st == Stat(f, p) IN st.err = "OK" /\ f[st.loc].kind = "dir"

\* mkdir(2): [err, fs]
Mkdir(f, p) ==
  IF p.comps = <<>>
    THEN [err |-> IF p.abs THEN "EEXIST" ELSE "ENOENT", fs |-> f]
  ELSE
    LET n    == Len(p.comps)
        d    == Stat(f, [abs |-> p.abs, comps |-> SubSeq(p.comps, 1, n - 1)])
        last == p.comps[n]
        loc  == Append(d.loc, last)
    IN  IF d.err /= "OK" THEN [err |-> d.err, fs |-> f]
        ELSE IF f[d.loc].kind /= "dir" THEN [err |-> "ENOTDIR", fs |-> f]
        ELSE IF last \in {<<".">>, <<".", ".">>} \/ loc \in DOMAIN f
          THEN [err |-> "EEXIST", fs |-> f]
        ELSE IF ~f[d.loc].w THEN [err |-> "EACCES", fs |-> f]
        ELSE [err |-> "OK", fs |-> FsPut(f, loc, Dir(TRUE))]

\* a slip: fs::create_dir in place of fs::create_dir_all
CreateDirOnly(f, p) ==
  Mkdir(f, p)

\* std::fs::create_dir_all: [err, fs]
RECURSIVE CreateDirAll(_, _)
CreateDirAll(f, p) ==
  IF p = [abs |-> FALSE, comps |-> <<>>] THEN [err |-> "OK", fs |-> f]
  ELSE
    LET m1 == Mkdir(f, p) IN
    IF m1.err = "OK" THEN m1
    ELSE IF m1.err /= "ENOENT"
      THEN (IF IsDir(f, p) THEN [err |-> "OK", fs |-> f] ELSE m1)
    ELSE
      LET par == PathParent(p) IN
      IF par = None THEN [err |-> "EOTHER", fs |-> f]
      ELSE
        LET up == CreateDirAll(f, par.v) IN
        IF up.err /= "OK" THEN up
        ELSE
          LET m2 == Mkdir(up.fs, p) IN
          IF m2.err = "OK" THEN m2
          ELSE IF IsDir(up.fs, p) THEN [err |-> "OK", fs |-> up.fs]
          ELSE [err |-> m2.err, fs |-> up.fs]

\* a slip: the file is opened without O_TRUNC, an existing file keeps its
\* content
FileCreateWithoutTruncate(f, p) ==
  IF p.comps = <<>>
    THEN [err |-> IF p.abs THEN "EISDIR" ELSE "ENOENT", fs |-> f, loc |-> Root]
  ELSE
    LET n    == Len(p.comps)
        d    == Stat(f, [abs |-> p.abs, comps |-> SubSeq(p.comps, 1, n - 1)])
        loc  == Append(d.loc, p.comps[n])
    IN  IF d.err /= "OK" THEN [err |-> d.err, fs |-> f, loc |-> loc]
        ELSE IF f[d.loc].kind /= "dir"
          THEN [err |-> "ENOTDIR", fs |-> f, loc |-> loc]
        ELSE IF loc \in DOMAIN f
          THEN (IF f[loc].kind = "dir"
                  THEN [err |-> "EISDIR", fs |-> f, loc |-> loc]
                ELSE [err |-> "OK", fs |-> f, loc |-> loc])
        ELSE IF ~f[d.loc].w THEN [err |-> "EACCES", fs |-> f, loc |-> loc]
        ELSE [err |-> "OK", fs |-> FsPut(f, loc, File(<<>>)), loc |-> loc]

\* File::create: open with O_WRONLY | O_CREAT | O_TRUNC; [err, fs, loc]
FileCreate(f, p) ==
  IF p.comps = <<>>
    THEN [err |-> IF p.abs THEN "EISDIR" ELSE "ENOENT", fs |-> f, loc |-> Root]
  ELSE
    LET n    == Len(p.comps)
        d    == Stat(f, [abs |-> p.abs, comps |-> SubSeq(p.comps, 1, n - 1)])
        last == p.comps[n]
        loc  == Append(d.loc, last)
    IN  IF d.err /= "OK" THEN [err |-> d.err, fs |-> f, loc |-> loc]
        ELSE IF f[d.loc].kind /= "dir"
          THEN [err |-> "ENOTDIR", fs |-> f, loc |-> loc]
        ELSE IF last \in {<<".">>, <<".", ".">>}
          THEN [err |-> "EISDIR", fs |-> f, loc |-> loc]
        ELSE IF loc \in DOMAIN f
          THEN (IF f[loc].kind = "dir"
                  THEN [err |-> "EISDIR", fs |-> f, loc |-> loc]
                ELSE IF ~f[loc].w
                  THEN [err |-> "EACCES", fs |-> f, loc |-> loc]
                ELSE [err |-> "OK", fs |-> FsPut(f, loc, File(<<>>)), loc |-> loc])
        ELSE IF ~f[d.loc].w THEN [err |-> "EACCES", fs |-> f, loc |-> loc]
        ELSE [err |-> "OK", fs |-> FsPut(f, loc, File(<<>>)), loc |-> loc]

\* write(2) of `data` at offset 0 of a file holding `old`
WriteAtStart(old, data) ==
  data \o SubSeq(old, Len(data) + 1, Len(old))

\* a slip: the document is written to a temporary sibling that is copied
\* to the target and never removed
ToFileXmlLeavingTemp(f, p, a, io) ==
  LET c == FileCreate(f, p) IN
  IF c.err /= "OK" THEN [err |-> c.err, fs |-> f]
  ELSE IF io = "fail" THEN [err |-> "EIO", fs |-> c.fs]
  ELSE [err |-> "OK",
        fs  |-> FsPut(FsPut(c.fs, c.loc, File(Render(a))),
                      Append(SubSeq(c.loc, 1, Len(c.loc) - 1), <<"t", "m", "p">>),
                      File(Render(a)))]

\* a slip: the result of the final flush is dropped
ToFileXmlSwallowingWriteError(f, p, a, io) ==
  LET c == FileCreate(f, p) IN
  IF c.err /= "OK" THEN [err |-> c.err, fs |-> f]
  ELSE IF io = "fail" THEN [err |-> "OK", fs |-> c.fs]
  ELSE [err |-> "OK", fs |-> FsPut(c.fs, c.loc, File(Render(a)))]

\* a slip: the file is opened for appending instead of being truncated
ToFileXmlAppending(f, p, a, io) ==
  LET c == FileCreateWithoutTruncate(f, p) IN
  IF c.err /= "OK" THEN [err |-> c.err, fs |-> f]
  ELSE IF io = "fail" THEN [err |-> "EIO", fs |-> c.fs]
  ELSE [err |-> "OK",
        fs  |-> FsPut(c.fs, c.loc, File(c.fs[c.loc].data \o Render(a)))]

\* plist::to_file_xml: create or truncate the file, write the document
\* through a buffered writer, flush and sync.  `io` is what the device does
\* with the buffered write: "ok", or "fail" (for instance a full disk),
\* which leaves the created or truncated file as File::create left it.
ToFileXml(f, p, a, io) ==
  LET c == FileCreate(f, p) IN
  IF c.err /= "OK" THEN [err |-> c.err, fs |-> f]
  ELSE IF io = "fail" THEN [err |-> "EIO", fs |-> c.fs]
  ELSE [err |-> "OK",
        fs  |-> FsPut(c.fs, c.loc,
                      File(WriteAtStart(c.fs[c.loc].data, Render(a))))]


\* the callers that may run save side by side
Savers ==
  {1, 2}

\* a caller that is not inside save
Idle ==
  [pc |-> "idle"]
(* ------------------------------ LaunchAgent::save ----------------------- *)

Ok ==
  [ok |-> TRUE]

\* anyhow's with_context: the message, the path it names, the cause
Err(context, path, cause) ==
  [ok |-> FALSE, context |-> context, path |-> path, cause |-> cause]

\* let path = PathBuf::from(out_dir.as_ref()).join(format!("{}.plist", self.label))
TargetPath(a, out_dir) ==
  PathOf(PathJoin(out_dir, FileNameOf(a.label)))

\* a slip: the result of create_dir_all is not propagated with `?`
SaveResultIgnoringDirError(f, a, out_dir, io) ==
  LET path   == TargetPath(a, out_dir)
      parent == PathParent(path)
      mk     == IF parent = None THEN [err |-> "OK", fs |-> f]
                ELSE CreateDirAll(f, parent.v)
      wr     == ToFileXml(mk.fs, path, a, io)
  IN  [res |-> IF wr.err = "OK" THEN Ok
               ELSE Err("Failed to save LaunchAgent to", path, wr.err),
       fs  |-> wr.fs]

\* the body of save: [res, fs]
SaveResult(f, a, out_dir, io) ==
  LET path   == TargetPath(a, out_dir)
      parent == PathParent(path)
      mk     == IF parent = None THEN [err |-> "OK", fs |-> f]
                ELSE CreateDirAll(f, parent.v)
  IN  IF mk.err /= "OK"
        THEN [res |-> Err("Failed to create parent directories for",
                          parent.v, mk.err),
              fs  |-> mk.fs]
      ELSE
        LET wr == ToFileXml(mk.fs, path, a, io) IN
        [res |-> IF wr.err = "OK" THEN Ok
                 ELSE Err("Failed to save LaunchAgent to", path, wr.err),
         fs  |-> wr.fs]

(* -------------------------------- inputs -------------------------------- *)

LabelPlain ==
  <<"j">>

LabelAbsolute ==
  <<"/", "j">>

LabelNested ==
  <<"k", "/", "j">>

LabelDotDot ==
  <<".", ".", "/", "j">>

\* the labels descriptors are given in the save scenarios
Labels ==
  {LabelPlain, LabelAbsolute, LabelNested, LabelDotDot, EmptyString}

ProgramPath ==
  <<"/", "b">>

\* the program paths and labels the constructors are called with
Programs ==
  {ProgramPath, EmptyString}

NewLabels ==
  {LabelPlain, EmptyString}

\* argument vectors of at most MaxArgs elements
ArgVectors ==
  UNION {[1..n -> {StrA, StrB}] : n \in 0..MaxArgs}

DirO ==
  <<"/", "o">>

DirNested ==
  <<"/", "o", "/", "n">>

DirReadOnly ==
  <<"/", "r">>

DirUnderReadOnly ==
  <<"/", "r", "/", "n">>

DirIsFile ==
  <<"/", "f">>

\* output directories: missing, nested missing, read-only, below a
\* read-only directory, colliding with a regular file, and the empty path
OutDirs ==
  {DirO, DirNested, DirReadOnly, DirUnderReadOnly, DirIsFile, EmptyString}

(* -------------------------------- actions ------------------------------- *)

Init ==
  /\ builder = LaunchAgentBuilderDefault
  /\ agent = None
  /\ fs = InitialFs
  /\ call = [op |-> "init"]
  /\ ncalls = 0
  /\ nsaves = 0
  /\ resourceLimitsBuilder = ResourceLimitsBuilderDefault
  /\ resourceLimits = None
  /\ calendarIntervalBuilder = CalendarIntervalBuilderDefault
  /\ calendarInterval = None
  /\ machServiceBuilder = MachServiceBuilderDefault
  /\ machService = None
  /\ savers = [p \in Savers |-> Idle]

\* builder.label(l)
Label(l) ==
  /\ agent = None
  /\ ncalls < MaxSetterCalls
  /\ builder' = SetLabel(builder, l)
  /\ ncalls' = ncalls + 1
  /\ call' = [op |-> "label", label |-> l, before |-> builder.label]
  /\ UNCHANGED <<agent, fs, nsaves, parts>>

\* builder.<field>(value) for any optional field
Setter(f, value) ==
  /\ agent = None
  /\ ncalls < MaxSetterCalls
  /\ builder' = SetField(builder, f, value)
  /\ ncalls' = ncalls + 1
  /\ call' = [op |-> "setter", field |-> f, value |-> value,
              before |-> builder.opt[f]]
  /\ UNCHANGED <<agent, fs, nsaves, parts>>

\* builder.program_argument(item)
ProgramArgument(item) ==
  /\ agent = None
  /\ ncalls < MaxSetterCalls
  /\ builder' = PushProgramArgument(builder, item)
  /\ ncalls' = ncalls + 1
  /\ call' = [op |-> "program_argument", item |-> item,
              before |-> builder.opt["program_arguments"]]
  /\ UNCHANGED <<agent, fs, nsaves, parts>>

\* builder.build()
Build ==
  /\ agent = None
  /\ LET r == BuilderBuild(builder) IN
       /\ agent' = IF r.ok THEN Some(r.v) ELSE None
       /\ call' = [op |-> "build", ok |-> r.ok]
  /\ UNCHANGED <<builder, fs, ncalls, nsaves, parts>>

\* LaunchAgent::new(label, program); the unwrap panics on a build error
New(label, program) ==
  /\ agent = None
  /\ ncalls = 0
  /\ LET r == NewResult(label, program) IN
       /\ agent' = IF r.ok THEN Some(r.v) ELSE None
       /\ call' = [op |-> "new", label |-> label, program |-> program,
                   panicked |-> ~r.ok]
  /\ UNCHANGED <<builder, fs, ncalls, nsaves, parts>>

\* LaunchAgent::new_with_args(label, program_arguments)
NewWithArgs(label, program_arguments) ==
  /\ agent = None
  /\ ncalls = 0
  /\ LET r == NewWithArgsResult(label, program_arguments) IN
       /\ agent' = IF r.ok THEN Some(r.v) ELSE None
       /\ call' = [op |-> "new_with_args", label |-> label,
                   program_arguments |-> program_arguments, panicked |-> ~r.ok]
  /\ UNCHANGED <<builder, fs, ncalls, nsaves, parts>>

\* what the target path of a save names in filesystem f: None if nothing
TargetNode(f, a, out_dir) ==
  LET st == Stat(f, TargetPath(a, out_dir))
  IN  IF st.err = "OK" THEN Some(f[st.loc]) ELSE None

\* agent.save(out_dir); `call` keeps the arguments, the result and what the
\* target path named before the call
Save(out_dir, io) ==
  /\ agent /= None
  /\ nsaves < MaxSaves
  /\ LET r == SaveResult(fs, agent.v, out_dir, io) IN
       /\ fs' = r.fs
       /\ call' = [op |-> "save", out_dir |-> out_dir, io |-> io, res |-> r.res,
                   before |-> TargetNode(fs, agent.v, out_dir)]
  /\ nsaves' = nsaves + 1
  /\ UNCHANGED <<builder, agent, ncalls, parts>>

\* the caller drops the descriptor
Drop ==
  /\ agent /= None
  /\ agent' = None
  /\ call' = [op |-> "drop"]
  /\ UNCHANGED <<builder, fs, ncalls, nsaves, parts>>

\* building a descriptor field by field or through a constructor, then
\* saving it
Next ==
  \/ Label(LabelPlain)
  \/ \E f \in FieldIds : \E value \in SampleValues(FieldType[f]) : Setter(f, value)
  \/ \E item \in {StrA, StrB} : ProgramArgument(item)
  \/ Build
  \/ \E l \in NewLabels : \E p \in Programs : New(l, p)
  \/ \E l \in NewLabels : \E args \in ArgVectors : NewWithArgs(l, args)
  \/ Save(DirO, "ok")

Spec ==
  Init /\ [][Next]_vars

\* descriptors with any label saved to any directory, one after another
SaveNext ==
  \/ \E l \in Labels : New(l, ProgramPath)
  \/ \E l \in Labels : NewWithArgs(l, <<StrA>>)
  \/ \E d \in OutDirs : \E io \in {"ok", "fail"} : Save(d, io)
  \/ Drop

SaveSpec ==
  Init /\ [][SaveNext]_vars

(* ----------------- actions of the sub-entity builders ------------------ *)

\* resource_limits_builder.<field>(value)
ResourceLimitsBuilderSet(f) ==
  /\ resourceLimitsBuilder' =
       PartSetField(resourceLimitsBuilder, f, VInt(LimitValue[f]))
  /\ call' = [op |-> "limits_setter", field |-> f]
  /\ UNCHANGED <<builder, agent, fs, ncalls, nsaves, resourceLimits,
                 calendarIntervalBuilder, calendarInterval, rest>>

\* resource_limits_builder.build()
ResourceLimitsBuild ==
  /\ resourceLimits' = ResourceLimitsBuilderBuild(resourceLimitsBuilder)
  /\ call' = [op |-> "limits_build"]
  /\ UNCHANGED <<builder, agent, fs, ncalls, nsaves, resourceLimitsBuilder,
                 calendarIntervalBuilder, calendarInterval, rest>>

\* calendar_interval_builder.<field>(value)
CalendarIntervalBuilderSet(f) ==
  /\ calendarIntervalBuilder' =
       PartSetField(calendarIntervalBuilder, f, VInt(IntervalValue[f]))
  /\ call' = [op |-> "interval_setter", field |-> f]
  /\ UNCHANGED <<builder, agent, fs, ncalls, nsaves, resourceLimitsBuilder,
                 resourceLimits, calendarInterval, rest>>

\* calendar_interval_builder.build()
CalendarIntervalBuild ==
  /\ calendarInterval' = CalendarIntervalBuilderBuild(calendarIntervalBuilder)
  /\ call' = [op |-> "interval_build"]
  /\ UNCHANGED <<builder, agent, fs, ncalls, nsaves, resourceLimitsBuilder,
                 resourceLimits, calendarIntervalBuilder, rest>>

\* builder.hard_resource_limits(limits) with the limits that were built
SetHardResourceLimits ==
  /\ resourceLimits /= None
  /\ resourceLimits.ok
  /\ Setter("hard_resource_limits", resourceLimits.v)

\* builder.start_calendar_interval(vec![interval]) with the interval that
\* was built
SetStartCalendarInterval ==
  /\ calendarInterval /= None
  /\ calendarInterval.ok
  /\ Setter("start_calendar_interval", VSeq(<<calendarInterval.v>>))

\* resource limits built field by field, then put into a descriptor that
\* is built and saved
LimitsNext ==
  \/ /\ ncalls = 0 /\ agent = None
     /\ \E f \in SeqRange(ResourceLimitsFields) : ResourceLimitsBuilderSet(f)
  \/ /\ ncalls = 0 /\ agent = None
     /\ ResourceLimitsBuild
  \/ SetHardResourceLimits
  \/ Label(LabelPlain)
  \/ Build
  \/ Save(DirO, "ok")

LimitsSpec ==
  Init /\ [][LimitsNext]_vars

\* a calendar interval built field by field, then put into a descriptor
\* that is built and saved
IntervalNext ==
  \/ /\ ncalls = 0 /\ agent = None
     /\ \E f \in SeqRange(CalendarIntervalFields) : CalendarIntervalBuilderSet(f)
  \/ /\ ncalls = 0 /\ agent = None
     /\ CalendarIntervalBuild
  \/ SetStartCalendarInterval
  \/ Label(LabelPlain)
  \/ Build
  \/ Save(DirO, "ok")

IntervalSpec ==
  Init /\ [][IntervalNext]_vars

\* a second value of every field type, different from the sampled one
OtherValues(ty) ==
  CASE ty = "bool" -> {VBool(TRUE)}
    [] ty = "String" -> {VStr(StrB)}
    [] ty = "u32" -> {VInt(7)}
    [] ty = "i8" -> {VInt(5)}
    [] ty = "VecString" -> {VSeq(<<VStr(StrA)>>)}
    [] ty = "InetdCompatibility" -> {InetdCompatibility(Some(VBool(FALSE)))}
    [] ty = "SessionType" -> {SessionTypeSingle(StrB)}
    [] ty = "MapVecString" -> {VMap(<<>>)}
    [] ty = "KeepAlive" -> {KeepAliveBool(FALSE)}
    [] ty = "MapString" -> {VMap(<<>>)}
    [] ty = "StringOrF32" -> {StringOrF32String(StrB)}
    [] ty = "VecCalendarInterval" -> {VSeq(<<>>)}
    [] ty = "ResourceLimits" ->
         {ResourceLimits(Some(VInt(2)), None, None, None, None, None, None, None, None)}
    [] ty = "ProcessType" -> {VUnitVariant(<<"S","t","a","n","d","a","r","d">>)}
    [] ty = "MapMachServiceConfig" -> {VMap(<<>>)}
    [] ty = "MapSocketValue" -> {VMap(<<>>)}
    [] ty = "LaunchEvents" -> {VMap(<<>>)}
    [] ty = "StringOrVec" -> {StringOrVecString(StrB)}

\* the first of the two values a field is rewritten with
FirstValue(ty) ==
  CHOOSE v \in SampleValues(ty) : TRUE

\* one builder chain in which a setter is followed by the same field's
\* setter again, next to label calls, and then built
RewriteNext ==
  \/ \E l \in {LabelPlain, LabelNested} : Label(l)
  \/ \E f \in FieldIds :
       /\ call.op = "setter" => call.field = f
       /\ \E value \in {FirstValue(FieldType[f])} \cup OtherValues(FieldType[f]) :
            Setter(f, value)
  \/ Build

RewriteSpec ==
  Init /\ [][RewriteNext]_vars

\* a socket with every field present
SocketFull ==
  Socket(Some(VUnitVariant(<<"S","t","r","e","a","m">>)), Some(VBool(TRUE)),
         Some(VStr(StrA)), Some(VStr(StrB)),
         Some(VUnitVariant(<<"I","P","v","4">>)),
         Some(VUnitVariant(<<"T","C","P">>)), Some(VStr(StrA)),
         Some(VStr(StrB)), Some(VInt(0)), Some(VInt(7)), Some(VReal(0)),
         Some(VBool(TRUE)), Some(VStr(StrA)))

\* values in which every field of every sub-entity is present
KeyValues(ty) ==
  CASE ty = "KeepAlive" ->
         {KeepAliveBool(TRUE), KeepAliveBool(FALSE),
          KeepAliveObject(Some(VBool(FALSE)), Some(VBool(TRUE)))}
    [] ty = "VecCalendarInterval" ->
         {VSeq(<< CalendarInterval(Some(VInt(30)), Some(VInt(6)), Some(VInt(15)),
                                   Some(VInt(1)), Some(VInt(12))) >>)}
    [] ty = "ResourceLimits" ->
         {ResourceLimits(Some(VInt(11)), Some(VInt(12)), Some(VInt(13)),
                         Some(VInt(14)), Some(VInt(15)), Some(VInt(16)),
                         Some(VInt(17)), Some(VInt(18)), Some(VInt(19)))}
    [] ty = "MapSocketValue" -> {VMap(<< <<StrA, SocketFull>> >>)}
    [] OTHER -> SampleValues(ty)

\* descriptors whose fields hold fully populated values, built and saved
KeysNext ==
  \/ Label(LabelPlain)
  \/ \E f \in FieldIds : \E value \in KeyValues(FieldType[f]) : Setter(f, value)
  \/ Build
  \/ Save(DirO, "ok")

KeysSpec ==
  Init /\ [][KeysNext]_vars


\* mach_service_builder.<field>(value)
MachServiceBuilderSet(f, value) ==
  /\ machServiceBuilder' = MachServiceSetField(machServiceBuilder, f, VBool(value))
  /\ call' = [op |-> "mach_setter", field |-> f]
  /\ UNCHANGED <<builder, agent, fs, ncalls, nsaves, resourceLimitsBuilder,
                 resourceLimits, calendarIntervalBuilder, calendarInterval,
                 machService, savers>>

\* mach_service_builder.build()
MachServiceBuild ==
  /\ machService' = MachServiceBuilderBuild(machServiceBuilder)
  /\ call' = [op |-> "mach_build", before |-> machServiceBuilder]
  /\ UNCHANGED <<builder, agent, fs, ncalls, nsaves, resourceLimitsBuilder,
                 resourceLimits, calendarIntervalBuilder, calendarInterval,
                 machServiceBuilder, savers>>

\* builder.mach_services(map) with one entry, the object form of the
\* service that was built
SetMachServices ==
  /\ machService /= None
  /\ machService.ok
  /\ Setter("mach_services",
            VMap(<< <<StrA, MachServiceConfigObject(machService.v)>> >>))

\* a mach service built field by field, then put into a descriptor that
\* is built and saved
MachNext ==
  \/ /\ ncalls = 0 /\ agent = None
     /\ \E f \in SeqRange(MachServiceFields), value \in BOOLEAN :
          MachServiceBuilderSet(f, value)
  \/ /\ ncalls = 0 /\ agent = None
     /\ MachServiceBuild
  \/ SetMachServices
  \/ Label(LabelPlain)
  \/ Build
  \/ Save(DirO, "ok")

MachSpec ==
  Init /\ [][MachNext]_vars
(* ------------------- decoding the untagged union types ------------------ *)

\* a value of a union type: the active variant and what it holds
Variant(name, v) ==
  [variant |-> name, v |-> v]

\* derive(Serialize) with serde(untagged): the content alone
SerializeUntagged(u) ==
  u.v

\* the plist reader: the value that starts at element i of a document and
\* the index after it
RECURSIVE ParseAt(_, _), ParseItems(_, _, _), ParseEntries(_, _, _)
ParseAt(xml, i) ==
  CASE xml[i][1] = "string"  -> [v |-> VStr(xml[i][2]), next |-> i + 1]
    [] xml[i][1] = "integer" -> [v |-> VInt(xml[i][2]), next |-> i + 1]
    [] xml[i][1] = "real"    -> [v |-> VReal(xml[i][2]), next |-> i + 1]
    [] xml[i][1] = "true"    -> [v |-> VBool(TRUE), next |-> i + 1]
    [] xml[i][1] = "false"   -> [v |-> VBool(FALSE), next |-> i + 1]
    [] xml[i][1] = "array"   -> ParseItems(xml, i + 1, <<>>)
    [] xml[i][1] = "dict"    -> ParseEntries(xml, i + 1, <<>>)

ParseItems(xml, i, acc) ==
  IF xml[i][1] = "end" THEN [v |-> VSeq(acc), next |-> i + 1]
  ELSE LET r == ParseAt(xml, i) IN ParseItems(xml, r.next, Append(acc, r.v))

ParseEntries(xml, i, acc) ==
  IF xml[i][1] = "end" THEN [v |-> VMap(acc), next |-> i + 1]
  ELSE LET r == ParseAt(xml, i + 1)
       IN  ParseEntries(xml, r.next, Append(acc, <<xml[i][2], r.v>>))

\* the content a document holds
Parse(xml) ==
  ParseAt(xml, 1).v

\* whether a content deserializes as the Rust type ty
RECURSIVE Accepts(_, _)
Accepts(ty, c) ==
  CASE ty = "String" -> c.k = "str"
    [] ty = "u32" -> c.k = "int" /\ c.n >= 0
    [] ty = "f32" -> c.k \in {"int", "real"}
    [] ty = "VecString" ->
         c.k = "seq" /\ \A i \in 1..Len(c.items) : Accepts("String", c.items[i])
    [] ty = "Socket" ->
         \* a dictionary; a sequence of sockets is refused, the first field
         \* of Socket being no dictionary
         c.k = "map"
    [] ty = "VecSocket" ->
         c.k = "seq" /\ \A i \in 1..Len(c.items) : Accepts("Socket", c.items[i])

\* the variants of each untagged union, in declaration order, as pairs of
\* the variant's name and the type it holds
UntaggedVariants(union) ==
  CASE union = "StringOrU32" -> << <<"String", "String">>, <<"Integer", "u32">> >>
    [] union = "StringOrF32" -> << <<"String", "String">>, <<"Integer", "f32">> >>
    [] union = "StringOrVec" -> << <<"String", "String">>, <<"Vec", "VecString">> >>
    [] union = "SessionType" -> << <<"Single", "String">>, <<"Many", "VecString">> >>
    [] union = "SocketValue" -> << <<"Single", "Socket">>, <<"Many", "VecSocket">> >>

\* a socket with no field present: the names and renames of its fields
SocketEmpty ==
  Socket(None, None, None, None, None, None, None, None, None, None, None,
         None, None)

\* the fields of Socket that hold a unit-variant enum
SocketEnumFields ==
  { <<"s","o","c","k","e","t","_","t","y","p","e">>, <<"f","a","m","i","l","y">>,
    <<"p","r","o","t","o","c","o","l">> }

\* derive(Deserialize) of Socket from a dictionary: each field is looked up
\* under its key, a missing Option field is None, unknown keys are ignored
DeserializeSocket(c) ==
  LET tmpl == SocketEmpty.fields
      key(i) == SerdeKey("PascalCase", tmpl[i].name, tmpl[i].rename)
      found(i) == {j \in 1..Len(c.entries) : c.entries[j][1] = key(i)}
      typed(i, v) == IF tmpl[i].name \in SocketEnumFields THEN VUnitVariant(v.s)
                     ELSE v
      at(i) == IF found(i) = {} THEN None
               ELSE Some(typed(i, c.entries[CHOOSE j \in found(i) : TRUE][2]))
  IN  VStruct("PascalCase",
              [i \in 1..Len(tmpl) |-> Field(tmpl[i].name, tmpl[i].rename, at(i))])

\* the Rust value a content accepted as type ty becomes
Decoded(ty, c) ==
  CASE ty = "f32" -> VReal(c.n)
    [] ty = "Socket" -> DeserializeSocket(c)
    [] ty = "VecSocket" ->
         VSeq([i \in 1..Len(c.items) |-> DeserializeSocket(c.items[i])])
    [] OTHER -> c

\* a slip: a string that is a numeral is taken for the integer
DeserializeUntaggedNumeralFirst(union, xml) ==
  LET c == Parse(xml)
  IN  IF union = "StringOrU32" /\ c.k = "str" /\ c.s = <<"8", "0">>
      THEN Variant("Integer", VInt(80))
      ELSE LET vs == UntaggedVariants(union)
               ok == {i \in 1..Len(vs) : Accepts(vs[i][2], c)}
           IN  IF ok = {} THEN Variant("error", c)
               ELSE LET i == CHOOSE i \in ok : \A j \in ok : i <= j
                    IN  Variant(vs[i][1], Decoded(vs[i][2], c))

\* derive(Deserialize) with serde(untagged): the content is buffered and
\* the variants are tried in declaration order; the first that accepts it
\* wins
DeserializeUntagged(union, xml) ==
  LET c  == Parse(xml)
      vs == UntaggedVariants(union)
      ok == {i \in 1..Len(vs) : Accepts(vs[i][2], c)}
  IN  IF ok = {} THEN Variant("error", c)
      ELSE LET i == CHOOSE i \in ok : \A j \in ok : i <= j
           IN  Variant(vs[i][1], Decoded(vs[i][2], c))

\* strings, a numeral among them
UnionStrings ==
  { <<>>, <<"a">>, <<"b">>, <<"8">>, <<"0">>, <<"8", "0">> }

\* sequences over S of length at most n
SeqsUpTo(S, n) ==
  UNION {[1..k -> S] : k \in 0..n}

\* sockets: none, one or all fields present
UnionSockets ==
  { SocketEmpty, SocketFull,
    Socket(None, Some(VBool(TRUE)), None, None, None, None, None, None, None,
           None, None, None, None) }

\* values of each union type, of every variant
UnionValues(union) ==
  CASE union = "StringOrU32" ->
         {Variant("String", VStr(s)) : s \in UnionStrings}
         \cup {Variant("Integer", VInt(n)) : n \in {0, 80, 65535}}
    [] union = "StringOrF32" ->
         {Variant("String", VStr(s)) : s \in UnionStrings}
         \cup {Variant("Integer", VReal(n)) : n \in {0, 18, 80}}
    [] union = "StringOrVec" ->
         {Variant("String", VStr(s)) : s \in UnionStrings}
         \cup {Variant("Vec", VSeq(v)) :
                 v \in SeqsUpTo({VStr(s) : s \in UnionStrings}, MaxArgs)}
    [] union = "SessionType" ->
         {Variant("Single", VStr(s)) : s \in UnionStrings}
         \cup {Variant("Many", VSeq(v)) :
                 v \in SeqsUpTo({VStr(s) : s \in UnionStrings}, MaxArgs)}
    [] union = "SocketValue" ->
         {Variant("Single", s) : s \in UnionSockets}
         \cup {Variant("Many", VSeq(v)) : v \in SeqsUpTo(UnionSockets, MaxArgs)}

UnionTypes ==
  {"StringOrU32", "StringOrF32", "StringOrVec", "SessionType", "SocketValue"}

\* a value of a union type is serialized and the document is decoded
RoundTrip(union, u) ==
  /\ LET doc == SerValue(SerializeUntagged(u)) IN
       call' = [op |-> "round_trip", union |-> union, value |-> u, doc |-> doc,
                decoded |-> DeserializeUntagged(union, doc)]
  /\ UNCHANGED <<builder, agent, fs, ncalls, nsaves, parts>>

UnionNext ==
  \E union \in UnionTypes : \E u \in UnionValues(union) : RoundTrip(union, u)

UnionSpec ==
  Init /\ [][UnionNext]_vars


(* ---------------- save calls that run side by side --------------------- *)

\* descriptors with the same label and documents of different lengths
RaceAgents ==
  { NewResult(LabelPlain, ProgramPath).v,
    NewWithArgsResult(LabelPlain, <<StrA>>).v,
    NewWithArgsResult(LabelPlain, <<StrA, StrB>>).v }

\* caller p enters a.save(out_dir): the path is computed
SaveCall(p, a, out_dir) ==
  /\ savers[p].pc = "idle"
  /\ savers' = [savers EXCEPT ![p] =
                  [pc |-> "create_dir_all", a |-> a, out_dir |-> out_dir,
                   path |-> TargetPath(a, out_dir)]]
  /\ call' = [op |-> "save_call", saver |-> p]
  /\ UNCHANGED <<builder, agent, fs, ncalls, nsaves, resourceLimitsBuilder,
                 resourceLimits, calendarIntervalBuilder, calendarInterval,
                 machServiceBuilder, machService>>

\* caller p runs fs::create_dir_all(parent); an error returns from save
SaveCreateDirAll(p) ==
  /\ savers[p].pc = "create_dir_all"
  /\ LET parent == PathParent(savers[p].path)
         mk     == IF parent = None THEN [err |-> "OK", fs |-> fs]
                   ELSE CreateDirAll(fs, parent.v)
     IN  /\ fs' = mk.fs
         /\ savers' = [savers EXCEPT ![p] =
              IF mk.err = "OK" THEN [@ EXCEPT !.pc = "create"]
              ELSE [pc |-> "returned", a |-> @.a, out_dir |-> @.out_dir,
                    path |-> @.path,
                    res |-> Err("Failed to create parent directories for",
                                parent.v, mk.err)]]
  /\ call' = [op |-> "save_create_dir_all", saver |-> p]
  /\ UNCHANGED <<builder, agent, ncalls, nsaves, resourceLimitsBuilder,
                 resourceLimits, calendarIntervalBuilder, calendarInterval,
                 machServiceBuilder, machService>>

\* caller p runs File::create(path) inside plist::to_file_xml: the file
\* is created or truncated, the caller's descriptor is at offset 0
SaveFileCreate(p) ==
  /\ savers[p].pc = "create"
  /\ LET c == FileCreate(fs, savers[p].path) IN
       /\ fs' = c.fs
       /\ savers' = [savers EXCEPT ![p] =
            IF c.err = "OK"
              THEN [pc |-> "write", a |-> @.a, out_dir |-> @.out_dir,
                    path |-> @.path, loc |-> c.loc]
            ELSE [pc |-> "returned", a |-> @.a, out_dir |-> @.out_dir,
                  path |-> @.path,
                  res |-> Err("Failed to save LaunchAgent to", @.path, c.err)]]
  /\ call' = [op |-> "save_file_create", saver |-> p]
  /\ UNCHANGED <<builder, agent, ncalls, nsaves, resourceLimitsBuilder,
                 resourceLimits, calendarIntervalBuilder, calendarInterval,
                 machServiceBuilder, machService>>

\* caller p flushes the buffered document with one write(2) at its own
\* offset 0, syncs and returns Ok(()) from save
SaveWrite(p) ==
  /\ savers[p].pc = "write"
  /\ fs' = FsPut(fs, savers[p].loc,
                 File(WriteAtStart(fs[savers[p].loc].data, Render(savers[p].a))))
  /\ savers' = [savers EXCEPT ![p] =
                  [pc |-> "returned", a |-> @.a, out_dir |-> @.out_dir,
                   path |-> @.path, res |-> Ok]]
  /\ call' = [op |-> "save_write", saver |-> p]
  /\ UNCHANGED <<builder, agent, ncalls, nsaves, resourceLimitsBuilder,
                 resourceLimits, calendarIntervalBuilder, calendarInterval,
                 machServiceBuilder, machService>>

\* two callers, each saving one descriptor, in any interleaving of the
\* system calls of save
RaceNext ==
  \/ \E p \in Savers, a \in RaceAgents, out_dir \in {DirO, DirNested} :
       SaveCall(p, a, out_dir)
  \/ \E p \in Savers : SaveCreateDirAll(p)
  \/ \E p \in Savers : SaveFileCreate(p)
  \/ \E p \in Savers : SaveWrite(p)

RaceSpec ==
  Init /\ [][RaceNext]_vars
(* ------------------------------ properties ------------------------------ *)

\* the nesting depth at which element i of a document stands
DepthAt(xml, i) ==
  Cardinality({j \in 1..(i - 1) : xml[j][1] \in {"dict", "array"}})
  - Cardinality({j \in 1..(i - 1) : xml[j][1] = "end"})

\* reading a document back: the keys of its root dictionary, i.e. the keys
\* at nesting depth 1
RootKeys(xml) ==
  {xml[i][2] : i \in {j \in 1..Len(xml) : xml[j][1] = "key" /\ DepthAt(xml, j) = 1}}

\* the documented key of every optional field: the PascalCase form of its
\* name, except ServiceIPC, LowPriorityIO and LowPriorityBackgroundIO
DocumentedKey ==
  [ disabled |-> <<"D", "i", "s", "a", "b", "l", "e", "d">>,
    user_name |-> <<"U", "s", "e", "r", "N", "a", "m", "e">>,
    group_name |-> <<"G", "r", "o", "u", "p", "N", "a", "m", "e">>,
    inetd_compatibility |-> <<"I", "n", "e", "t", "d", "C", "o", "m", "p", "a", "t", "i", "b", "i", "l", "i", "t", "y">>,
    limit_load_to_hosts |-> <<"L", "i", "m", "i", "t", "L", "o", "a", "d", "T", "o", "H", "o", "s", "t", "s">>,
    limit_load_from_hosts |-> <<"L", "i", "m", "i", "t", "L", "o", "a", "d", "F", "r", "o", "m", "H", "o", "s", "t", "s">>,
    limit_load_to_session_type |-> <<"L", "i", "m", "i", "t", "L", "o", "a", "d", "T", "o", "S", "e", "s", "s", "i", "o", "n", "T", "y", "p", "e">>,
    limit_load_to_hardware |-> <<"L", "i", "m", "i", "t", "L", "o", "a", "d", "T", "o", "H", "a", "r", "d", "w", "a", "r", "e">>,
    limit_load_from_hardware |-> <<"L", "i", "m", "i", "t", "L", "o", "a", "d", "F", "r", "o", "m", "H", "a", "r", "d", "w", "a", "r", "e">>,
    program |-> <<"P", "r", "o", "g", "r", "a", "m">>,
    bundle_program |-> <<"B", "u", "n", "d", "l", "e", "P", "r", "o", "g", "r", "a", "m">>,
    program_arguments |-> <<"P", "r", "o", "g", "r", "a", "m", "A", "r", "g", "u", "m", "e", "n", "t", "s">>,
    enable_globbing |-> <<"E", "n", "a", "b", "l", "e", "G", "l", "o", "b", "b", "i", "n", "g">>,
    enable_transactions |-> <<"E", "n", "a", "b", "l", "e", "T", "r", "a", "n", "s", "a", "c", "t", "i", "o", "n", "s">>,
    enable_pressured_exit |-> <<"E", "n", "a", "b", "l", "e", "P", "r", "e", "s", "s", "u", "r", "e", "d", "E", "x", "i", "t">>,
    on_demand |-> <<"O", "n", "D", "e", "m", "a", "n", "d">>,
    service_ipc |-> <<"S", "e", "r", "v", "i", "c", "e", "I", "P", "C">>,
    keep_alive |-> <<"K", "e", "e", "p", "A", "l", "i", "v", "e">>,
    run_at_load |-> <<"R", "u", "n", "A", "t", "L", "o", "a", "d">>,
    root_directory |-> <<"R", "o", "o", "t", "D", "i", "r", "e", "c", "t", "o", "r", "y">>,
    working_directory |-> <<"W", "o", "r", "k", "i", "n", "g", "D", "i", "r", "e", "c", "t", "o", "r", "y">>,
    environment_variables |-> <<"E", "n", "v", "i", "r", "o", "n", "m", "e", "n", "t", "V", "a", "r", "i", "a", "b", "l", "e", "s">>,
    umask |-> <<"U", "m", "a", "s", "k">>,
    time_out |-> <<"T", "i", "m", "e", "O", "u", "t">>,
    exit_time_out |-> <<"E", "x", "i", "t", "T", "i", "m", "e", "O", "u", "t">>,
    throttle_interval |-> <<"T", "h", "r", "o", "t", "t", "l", "e", "I", "n", "t", "e", "r", "v", "a", "l">>,
    init_groups |-> <<"I", "n", "i", "t", "G", "r", "o", "u", "p", "s">>,
    watch_paths |-> <<"W", "a", "t", "c", "h", "P", "a", "t", "h", "s">>,
    queue_directories |-> <<"Q", "u", "e", "u", "e", "D", "i", "r", "e", "c", "t", "o", "r", "i", "e", "s">>,
    start_on_mount |-> <<"S", "t", "a", "r", "t", "O", "n", "M", "o", "u", "n", "t">>,
    start_interval |-> <<"S", "t", "a", "r", "t", "I", "n", "t", "e", "r", "v", "a", "l">>,
    start_calendar_interval |-> <<"S", "t", "a", "r", "t", "C", "a", "l", "e", "n", "d", "a", "r", "I", "n", "t", "e", "r", "v", "a", "l">>,
    standard_in_path |-> <<"S", "t", "a", "n", "d", "a", "r", "d", "I", "n", "P", "a", "t", "h">>,
    standard_out_path |-> <<"S", "t", "a", "n", "d", "a", "r", "d", "O", "u", "t", "P", "a", "t", "h">>,
    standard_error_path |-> <<"S", "t", "a", "n", "d", "a", "r", "d", "E", "r", "r", "o", "r", "P", "a", "t", "h">>,
    debug |-> <<"D", "e", "b", "u", "g">>,
    wait_for_debugger |-> <<"W", "a", "i", "t", "F", "o", "r", "D", "e", "b", "u", "g", "g", "e", "r">>,
    soft_resource_limits |-> <<"S", "o", "f", "t", "R", "e", "s", "o", "u", "r", "c", "e", "L", "i", "m", "i", "t", "s">>,
    hard_resource_limits |-> <<"H", "a", "r", "d", "R", "e", "s", "o", "u", "r", "c", "e", "L", "i", "m", "i", "t", "s">>,
    nice |-> <<"N", "i", "c", "e">>,
    process_type |-> <<"P", "r", "o", "c", "e", "s", "s", "T", "y", "p", "e">>,
    abandon_process_group |-> <<"A", "b", "a", "n", "d", "o", "n", "P", "r", "o", "c", "e", "s", "s", "G", "r", "o", "u", "p">>,
    low_priority_io |-> <<"L", "o", "w", "P", "r", "i", "o", "r", "i", "t", "y", "I", "O">>,
    low_priority_background_io |-> <<"L", "o", "w", "P", "r", "i", "o", "r", "i", "t", "y", "B", "a", "c", "k", "g", "r", "o", "u", "n", "d", "I", "O">>,
    materialized_dataless_files |-> <<"M", "a", "t", "e", "r", "i", "a", "l", "i", "z", "e", "d", "D", "a", "t", "a", "l", "e", "s", "s", "F", "i", "l", "e", "s">>,
    launch_only_once |-> <<"L", "a", "u", "n", "c", "h", "O", "n", "l", "y", "O", "n", "c", "e">>,
    mach_services |-> <<"M", "a", "c", "h", "S", "e", "r", "v", "i", "c", "e", "s">>,
    sockets |-> <<"S", "o", "c", "k", "e", "t", "s">>,
    launch_events |-> <<"L", "a", "u", "n", "c", "h", "E", "v", "e", "n", "t", "s">>,
    hopefully_exits_last |-> <<"H", "o", "p", "e", "f", "u", "l", "l", "y", "E", "x", "i", "t", "s", "L", "a", "s", "t">>,
    hopefully_exits_first |-> <<"H", "o", "p", "e", "f", "u", "l", "l", "y", "E", "x", "i", "t", "s", "F", "i", "r", "s", "t">>,
    session_create |-> <<"S", "e", "s", "s", "i", "o", "n", "C", "r", "e", "a", "t", "e">>,
    legacy_timers |-> <<"L", "e", "g", "a", "c", "y", "T", "i", "m", "e", "r", "s">>,
    associated_bundle_identifiers |-> <<"A", "s", "s", "o", "c", "i", "a", "t", "e", "d", "B", "u", "n", "d", "l", "e", "I", "d", "e", "n", "t", "i", "f", "i", "e", "r", "s">> ]

\* the last operation was a save, and it returned Ok
SavedOk ==
  call.op = "save" /\ call.res.ok

\* the location the last save's target path names now
SavedLoc ==
  Stat(fs, TargetPath(agent.v, call.out_dir)).loc

\* the document the last successful save left at its target
SavedDocument ==
  fs[SavedLoc].data

SetFields(a) ==
  {f \in FieldIds : a.opt[f] /= None}

\* a step that is a call of save
SaveStep ==
  nsaves' = nsaves + 1

\* every key of a document, at whatever depth it stands
AllKeys(xml) ==
  {xml[i][2] : i \in {j \in 1..Len(xml) : xml[j][1] = "key"}}

\* C1: in the plist a successful save leaves, no unset optional field of
\* the descriptor has a key, neither in the root dictionary nor anywhere
\* below it.
C1_UnsetFieldsHaveNoKey ==
  SavedOk =>
    LET keys == AllKeys(SavedDocument)
    IN  \A f \in FieldIds :
          agent.v.opt[f] = None => DocumentedKey[f] \notin keys

C1_Witness ==
  /\ SavedOk
  /\ SetFields(agent.v) /= {}
  /\ \E f \in FieldIds : agent.v.opt[f] = None
  /\ Len(SavedDocument) > 2

\* C2: the root dictionary read back from a saved plist has exactly the key
\* Label and the documented keys of the fields that were set.
C2_RootKeysAreLabelAndSetFields ==
  SavedOk =>
    RootKeys(SavedDocument)
      = {<<"L", "a", "b", "e", "l">>}
        \cup {DocumentedKey[f] : f \in SetFields(agent.v)}

C2_Witness ==
  /\ SavedOk
  /\ Cardinality(SetFields(agent.v)) = 2
  /\ "service_ipc" \in SetFields(agent.v)

\* <out_dir>/<label>.plist read as a path (the bare file name when the
\* directory is the empty path)
SlashJoined(out_dir, label) ==
  PathOf(IF out_dir = <<>> THEN label \o DotPlist
         ELSE out_dir \o <<"/">> \o label \o DotPlist)

\* C3: after a successful save the descriptor's plist is the file at
\* <out_dir>/<label>.plist, for every label and output directory.
C3_FileIsAtDirSlashLabelPlist ==
  SavedOk =>
    LET st == Stat(fs, SlashJoined(call.out_dir, agent.v.label))
    IN  st.err = "OK" /\ fs[st.loc] = File(Render(agent.v))

FilesOf(f) ==
  {l \in DOMAIN f : f[l].kind = "file"}

\* the regular files of f and g outside locs are the same files with the
\* same content
SameFilesExcept(f, g, locs) ==
  \A l \in (FilesOf(f) \cup FilesOf(g)) \ locs :
    l \in DOMAIN f /\ l \in DOMAIN g /\ f[l] = g[l]

\* for labels that do not start with a separator the file is at that path
RelativeLabelFileIsAtDirSlashLabelPlist ==
  (SavedOk /\ (agent.v.label = <<>> \/ agent.v.label[1] /= Sep)) =>
    LET st == Stat(fs, SlashJoined(call.out_dir, agent.v.label))
    IN  st.err = "OK" /\ fs[st.loc] = File(Render(agent.v))

\* C4: a save that returns Ok has written exactly one regular file, the one
\* at the target path it computed, and that file holds the rendering of the
\* descriptor; every other regular file is as it was.
C4_SuccessWritesExactlyTheTarget ==
  [][(SaveStep /\ call'.res.ok) =>
       LET t == Stat(fs', TargetPath(agent.v, call'.out_dir))
       IN  /\ t.err = "OK"
           /\ fs'[t.loc] = File(Render(agent.v))
           /\ SameFilesExcept(fs, fs', {t.loc})]_vars

C4_Witness ==
  /\ SavedOk
  /\ nsaves = 2
  /\ fs[SavedLoc] = File(Render(agent.v))
  /\ \E l \in DOMAIN fs \ {SavedLoc} :
       fs[l].kind = "file" /\ fs[l].data \notin {OldData, <<>>}

PathPrefixes(p) ==
  {[abs |-> p.abs, comps |-> SubSeq(p.comps, 1, n)] : n \in 0..Len(p.comps)}

\* nothing but non-existence stands in the way of a save in filesystem f:
\* every prefix of the target's parent is a directory or missing, a missing
\* one next to an existing one can be created there, and the file can be
\* created or rewritten
NothingButMissingDirs(f, a, out_dir) ==
  LET p   == TargetPath(a, out_dir)
      par == PathParent(p).v
  IN  /\ \A q \in PathPrefixes(par) : IsDir(f, q) \/ Stat(f, q).err = "ENOENT"
      /\ \A q \in PathPrefixes(par) :
           (q.comps /= <<>> /\ ~IsDir(f, q) /\ IsDir(f, PathParent(q).v))
             => f[Stat(f, PathParent(q).v).loc].w
      /\ IsDir(f, par) =>
           \/ f[Stat(f, par).loc].w /\ Stat(f, p).err = "ENOENT"
           \/ Stat(f, p).err = "OK" /\ f[Stat(f, p).loc].kind = "file"
      /\ ~IsDir(f, p)

\* C5: when only missing directories stand in the way (none, one or several
\* components of the target's parent do not exist) and the write goes
\* through, save returns Ok, every prefix of the target's parent is a
\* directory afterwards, and the directories that existed are unchanged.
C5_MissingDirectoriesAreCreated ==
  [][(SaveStep /\ call'.io = "ok"
        /\ NothingButMissingDirs(fs, agent.v, call'.out_dir)) =>
       /\ call'.res.ok
       /\ \A q \in PathPrefixes(PathParent(TargetPath(agent.v, call'.out_dir)).v) :
            IsDir(fs', q)
       /\ \A l \in DOMAIN fs :
            fs[l].kind = "dir" => (l \in DOMAIN fs' /\ fs'[l] = fs[l])]_vars

C5_Witness ==
  /\ SavedOk
  /\ nsaves = 1
  /\ call.out_dir = DirNested
  /\ call.before = None
  /\ IsDir(fs, PathOf(DirNested))

\* C6: a successful save onto an existing file leaves exactly the rendering
\* of the descriptor just saved, whatever the file held before.
C6_SaveReplacesExistingFile ==
  (SavedOk /\ call.before /= None /\ call.before.v.kind = "file") =>
    SavedDocument = Render(agent.v)

C6_Witness ==
  /\ SavedOk
  /\ call.before /= None
  /\ call.before.v.kind = "file"
  /\ call.before.v.data \notin {OldData, <<>>, Render(agent.v)}
  /\ Len(call.before.v.data) > Len(Render(agent.v))

\* C7: when the parent directory of the target could not be created (it is
\* no directory after the call), save returns the error that names that
\* directory, and no regular file was created or modified.
C7_DirectoryFailureStopsSave ==
  [][(SaveStep
        /\ ~IsDir(fs', PathParent(TargetPath(agent.v, call'.out_dir)).v)) =>
       /\ ~call'.res.ok
       /\ call'.res.context = "Failed to create parent directories for"
       /\ call'.res.path = PathParent(TargetPath(agent.v, call'.out_dir)).v
       /\ SameFilesExcept(fs, fs', {})]_vars

C7_Witness ==
  /\ call.op = "save"
  /\ ~call.res.ok
  /\ call.res.context = "Failed to create parent directories for"
  /\ call.res.cause = "EACCES"
  /\ call.res.path = PathOf(DirUnderReadOnly)

\* C8: save returns Ok only if the parent directory exists and the target
\* holds the rendering; an error while the parent directory exists names
\* the target path; a failed write is never reported as success.
C8_WriteFailureIsReported ==
  [][SaveStep =>
       LET p   == TargetPath(agent.v, call'.out_dir)
           par == PathParent(p).v
       IN  /\ call'.res.ok =>
                /\ IsDir(fs', par)
                /\ TargetNode(fs', agent.v, call'.out_dir) = Some(File(Render(agent.v)))
           /\ (~call'.res.ok /\ IsDir(fs', par)) =>
                /\ call'.res.context = "Failed to save LaunchAgent to"
                /\ call'.res.path = p
           /\ call'.io = "fail" => ~call'.res.ok]_vars

C8_Witness ==
  /\ call.op = "save"
  /\ ~call.res.ok
  /\ call.res.context = "Failed to save LaunchAgent to"
  /\ call.res.cause = "EIO"
  /\ IsDir(fs, PathParent(call.res.path).v)

\* C9: LaunchAgent::new(label, program) returns a descriptor with that
\* label, with program set to the given path, and with program_arguments
\* and every other optional field absent.
C9_NewSetsLabelAndProgramOnly ==
  call.op = "new" =>
    /\ ~call.panicked
    /\ agent /= None
    /\ agent.v.label = call.label
    /\ agent.v.opt["program"] = Some(VStr(call.program))
    /\ \A f \in FieldIds \ {"program"} : agent.v.opt[f] = None

C9_Witness ==
  /\ call.op = "new"
  /\ agent /= None
  /\ call.label = LabelPlain
  /\ call.program = ProgramPath

\* C10: LaunchAgent::new_with_args(label, args) returns a descriptor with
\* that label whose program_arguments are args, element by element in the
\* same order and of the same length, and whose program is absent.
C10_NewWithArgsKeepsArguments ==
  call.op = "new_with_args" =>
    /\ agent /= None
    /\ agent.v.label = call.label
    /\ agent.v.opt["program"] = None
    /\ agent.v.opt["program_arguments"] /= None
    /\ LET got == agent.v.opt["program_arguments"].v.items
       IN  /\ Len(got) = Len(call.program_arguments)
           /\ \A i \in 1..Len(got) : got[i] = VStr(call.program_arguments[i])

C10_Witness ==
  /\ call.op = "new_with_args"
  /\ agent /= None
  /\ Len(call.program_arguments) = 2
  /\ call.program_arguments[1] /= call.program_arguments[2]

(* ------------------------- the builder's setters ------------------------ *)

\* a step that is one call of a builder method
BuilderStep ==
  ncalls' = ncalls + 1

\* the argument list build() would give a builder: empty if none
BuiltArguments(b) ==
  LET got == BuilderBuild(b).v.opt["program_arguments"]
  IN  IF got = None THEN <<>> ELSE got.v.items

\* C11: program_argument(a) appends: the arguments a build gives afterwards
\* are those it gave before (none if none) followed by a; the bulk setter
\* program_arguments(list) replaces them all by list.
C11_ProgramArgumentAppends ==
  [][ /\ (BuilderStep /\ call'.op = "program_argument") =>
           /\ BuilderBuild(builder').v.opt["program_arguments"] /= None
           /\ BuiltArguments(builder')
                = BuiltArguments(builder) \o <<VStr(call'.item)>>
      /\ (BuilderStep /\ call'.op = "setter"
            /\ call'.field = "program_arguments") =>
           BuilderBuild(builder').v.opt["program_arguments"] = Some(call'.value)
    ]_vars

C11_Witness ==
  /\ call.op = "program_argument"
  /\ call.before /= None
  /\ Len(BuiltArguments(builder)) = 2
  /\ BuiltArguments(builder)[1] /= BuiltArguments(builder)[2]
  /\ BuiltArguments(builder)[2] = VStr(call.item)

\* C12: the last write wins: after builder.<field>(v) a build gives v for
\* that field whatever the field held before, and calling a setter with the
\* value the field already holds changes nothing; the same for label.
C12_LastWriteWins ==
  [][ /\ (BuilderStep /\ call'.op = "setter") =>
           /\ BuilderBuild(builder').v.opt[call'.field] = Some(call'.value)
           /\ builder.opt[call'.field] = Some(Some(call'.value)) =>
                BuilderBuild(builder') = BuilderBuild(builder)
      /\ (BuilderStep /\ call'.op = "label") =>
           /\ BuilderBuild(builder').v.label = call'.label
           /\ builder.label = Some(call'.label) =>
                BuilderBuild(builder') = BuilderBuild(builder)
    ]_vars

C12_Witness ==
  /\ call.op = "setter"
  /\ call.before /= None
  /\ call.before /= Some(Some(call.value))
  /\ builder.opt[call.field] = Some(Some(call.value))
  /\ call.field = "umask"

\* the builder as it was before the call that `call` records
BuilderBefore ==
  CASE call.op = "setter" -> [builder EXCEPT !.opt[call.field] = call.before]
    [] call.op = "label" -> [builder EXCEPT !.label = call.before]
    [] OTHER -> builder

\* the call that `call` records, applied to builder b
Replay(b) ==
  CASE call.op = "setter" -> SetField(b, call.field, call.value)
    [] call.op = "label" -> SetLabel(b, call.label)
    [] OTHER -> b

\* C13: a setter changes its own field only, and two calls on different
\* fields build the same descriptor in either order.
C13_SettersCommute ==
  [][ /\ (BuilderStep /\ call'.op = "setter") =>
           /\ builder'.label = builder.label
           /\ \A g \in FieldIds \ {call'.field} :
                /\ builder'.opt[g] = builder.opt[g]
                /\ BuilderBuild(builder').v.opt[g] = BuilderBuild(builder).v.opt[g]
           /\ (call.op = "label"
                 \/ (call.op = "setter" /\ call.field /= call'.field)) =>
                BuilderBuild(builder')
                  = BuilderBuild(Replay(SetField(BuilderBefore, call'.field,
                                                 call'.value)))
      /\ (BuilderStep /\ call'.op = "label") =>
           /\ builder'.opt = builder.opt
           /\ call.op = "setter" =>
                BuilderBuild(builder')
                  = BuilderBuild(Replay(SetLabel(BuilderBefore, call'.label)))
    ]_vars

C13_Witness ==
  /\ call.op = "setter"
  /\ call.before = None
  /\ Cardinality({f \in FieldIds : builder.opt[f] /= None}) = 2
  /\ builder.opt["disabled"] /= None
  /\ call.field = "keep_alive"

(* ------------------------------- build() -------------------------------- *)

\* C14: build() on a builder whose label was never supplied returns an
\* error and no descriptor is produced.
C14_MissingLabelIsBuildError ==
  (call.op = "build" /\ builder.label = None) =>
    (~call.ok /\ agent = None)

\* C15: build() succeeds for every combination of set and unset optional
\* fields once label has been supplied, and neither new nor new_with_args
\* panics.
C15_BuildSucceedsWithLabel ==
  /\ (call.op = "build" /\ builder.label /= None) =>
       /\ call.ok
       /\ agent /= None
       /\ agent.v.label = builder.label.v
       /\ \A f \in FieldIds :
            agent.v.opt[f] = IF builder.opt[f] = None THEN None
                             ELSE builder.opt[f].v
  /\ call.op \in {"new", "new_with_args"} =>
       (~call.panicked /\ agent /= None)

C15_Witness ==
  /\ call.op = "build"
  /\ builder.label /= None
  /\ call.ok
  /\ agent /= None
  /\ agent.v.opt["program"] = None
  /\ agent.v.opt["program_arguments"] = None
  /\ agent.v.opt["run_at_load"] /= None

(* ----------------------- the sub-entity builders ------------------------ *)

\* what a build of a sub-entity builder must give for each field if every
\* subset of assigned fields is accepted: the assigned value, or absent
PartFieldsAsAssigned(b, order, built) ==
  \A i \in 1..Len(order) :
    built.fields[i].v = IF b[order[i]] = None THEN None ELSE b[order[i]].v

\* C16: ResourceLimitsBuilder::build succeeds whatever subset of the nine
\* fields was set, and the limits it builds have the set fields with their
\* values and every other field absent.
C16_LimitsBuildForEverySubset ==
  call.op = "limits_build" =>
    /\ resourceLimits.ok
    /\ PartFieldsAsAssigned(resourceLimitsBuilder, ResourceLimitsFields,
                            resourceLimits.v)

\* C17: CalendarIntervalBuilder::build succeeds whatever subset of minute,
\* hour, day, weekday and month was set, and a field that was not set is
\* absent in the interval it builds.
C17_IntervalBuildForEverySubset ==
  call.op = "interval_build" =>
    /\ calendarInterval.ok
    /\ PartFieldsAsAssigned(calendarIntervalBuilder, CalendarIntervalFields,
                            calendarInterval.v)

(* --------------------------- keys and values ---------------------------- *)

\* the keys of a document that stand at nesting depth d
KeysAtDepth(xml, d) ==
  {xml[i][2] : i \in {j \in 1..Len(xml) : xml[j][1] = "key" /\ DepthAt(xml, j) = d}}

\* the elements that directly follow the key `key` at nesting depth d
ElementsAfterKey(xml, key, d) ==
  {xml[i + 1] : i \in {j \in 1..(Len(xml) - 1) :
                         xml[j] = <<"key", key>> /\ DepthAt(xml, j) = d}}

\* the documented key of each resource limit
LimitKey ==
  [core |-> <<"C","o","r","e">>,
   cpu |-> <<"C","P","U">>,
   data |-> <<"D","a","t","a">>,
   file_size |-> <<"F","i","l","e","S","i","z","e">>,
   memory_lock |-> <<"M","e","m","o","r","y","L","o","c","k">>,
   number_of_files |-> <<"N","u","m","b","e","r","O","f","F","i","l","e","s">>,
   number_of_processes |->
     <<"N","u","m","b","e","r","O","f","P","r","o","c","e","s","s","e","s">>,
   resident_set_size |->
     <<"R","e","s","i","d","e","n","t","S","e","t","S","i","z","e">>,
   stack |-> <<"S","t","a","c","k">>]

\* C18: resource limits with all nine fields set to different values are
\* written as a dictionary with exactly the nine documented keys, each
\* followed by the number of its own field.
C18_LimitsKeysCarryOwnValues ==
  (SavedOk /\ agent.v.opt["hard_resource_limits"] /= None) =>
    LET doc == SavedDocument IN
      /\ ElementsAfterKey(doc, DocumentedKey["hard_resource_limits"], 1)
           = { <<"dict">> }
      /\ KeysAtDepth(doc, 2) = {LimitKey[f] : f \in SeqRange(ResourceLimitsFields)}
      /\ \A f \in SeqRange(ResourceLimitsFields) :
           ElementsAfterKey(doc, LimitKey[f], 2) = { <<"integer", LimitValue[f]>> }

C18_Witness ==
  /\ SavedOk
  /\ agent.v.opt["hard_resource_limits"] /= None
  /\ Cardinality(KeysAtDepth(SavedDocument, 2)) = 9
  /\ \A f, g \in SeqRange(ResourceLimitsFields) :
       f /= g => LimitValue[f] /= LimitValue[g]

\* the historical key of every field of the sub-entities, as pairs of the
\* field name and its key
PartFieldKey ==
  {
    << <<"c","o","r","e">>,
       <<"C","o","r","e">> >>,
    << <<"c","p","u">>,
       <<"C","P","U">> >>,
    << <<"d","a","t","a">>,
       <<"D","a","t","a">> >>,
    << <<"f","i","l","e","_","s","i","z","e">>,
       <<"F","i","l","e","S","i","z","e">> >>,
    << <<"m","e","m","o","r","y","_","l","o","c","k">>,
       <<"M","e","m","o","r","y","L","o","c","k">> >>,
    << <<"n","u","m","b","e","r","_","o","f","_","f","i","l","e","s">>,
       <<"N","u","m","b","e","r","O","f","F","i","l","e","s">> >>,
    << <<"n","u","m","b","e","r","_","o","f","_","p","r","o","c","e","s","s","e","s">>,
       <<"N","u","m","b","e","r","O","f","P","r","o","c","e","s","s","e","s">> >>,
    << <<"r","e","s","i","d","e","n","t","_","s","e","t","_","s","i","z","e">>,
       <<"R","e","s","i","d","e","n","t","S","e","t","S","i","z","e">> >>,
    << <<"s","t","a","c","k">>,
       <<"S","t","a","c","k">> >>,
    << <<"m","i","n","u","t","e">>,
       <<"M","i","n","u","t","e">> >>,
    << <<"h","o","u","r">>,
       <<"H","o","u","r">> >>,
    << <<"d","a","y">>,
       <<"D","a","y">> >>,
    << <<"w","e","e","k","d","a","y">>,
       <<"W","e","e","k","d","a","y">> >>,
    << <<"m","o","n","t","h">>,
       <<"M","o","n","t","h">> >>,
    << <<"s","o","c","k","e","t","_","t","y","p","e">>,
       <<"S","o","c","k","T","y","p","e">> >>,
    << <<"p","a","s","s","i","v","e">>,
       <<"S","o","c","k","P","a","s","s","i","v","e">> >>,
    << <<"n","o","d","e","_","n","a","m","e">>,
       <<"S","o","c","k","N","o","d","e","N","a","m","e">> >>,
    << <<"s","e","r","v","i","c","e","_","n","a","m","e">>,
       <<"S","o","c","k","S","e","r","v","i","c","e","N","a","m","e">> >>,
    << <<"f","a","m","i","l","y">>,
       <<"S","o","c","k","F","a","m","i","l","y">> >>,
    << <<"p","r","o","t","o","c","o","l">>,
       <<"S","o","c","k","P","r","o","t","o","c","o","l">> >>,
    << <<"p","a","t","h","_","n","a","m","e">>,
       <<"S","o","c","k","P","a","t","h","N","a","m","e">> >>,
    << <<"s","e","c","u","r","e","_","s","o","c","k","e","t","_","w","i","t","h","_","k","e","y">>,
       <<"S","e","c","u","r","e","S","o","c","k","e","t","W","i","t","h","K","e","y">> >>,
    << <<"p","a","t","h","_","o","w","n","e","r">>,
       <<"S","o","c","k","P","a","t","h","O","w","n","e","r">> >>,
    << <<"p","a","t","h","_","g","r","o","u","p">>,
       <<"S","o","c","k","P","a","t","h","G","r","o","u","p">> >>,
    << <<"p","a","t","h","_","m","o","d","e">>,
       <<"S","o","c","k","P","a","t","h","M","o","d","e">> >>,
    << <<"b","o","n","j","o","u","r">>,
       <<"B","o","n","j","o","u","r">> >>,
    << <<"m","u","l","t","i","c","a","s","t","_","g","r","o","u","p">>,
       <<"M","u","l","t","i","c","a","s","t","G","r","o","u","p">> >>,
    << <<"w","a","i","t">>,
       <<"W","a","i","t">> >>,
    << <<"s","u","c","c","e","s","s","f","u","l","_","e","x","i","t">>,
       <<"S","u","c","c","e","s","s","f","u","l","E","x","i","t">> >>,
    << <<"n","e","t","w","o","r","k","_","s","t","a","t","e">>,
       <<"N","e","t","w","o","r","k","S","t","a","t","e">> >>,
    << <<"p","a","t","h","_","s","t","a","t","e">>,
       <<"P","a","t","h","S","t","a","t","e">> >>,
    << <<"o","t","h","e","r","_","j","o","b","_","e","n","a","b","l","e","d">>,
       <<"O","t","h","e","r","J","o","b","E","n","a","b","l","e","d">> >>,
    << <<"c","r","a","s","h","e","d">>,
       <<"C","r","a","s","h","e","d">> >>,
    << <<"r","e","s","e","t","_","a","t","_","c","l","o","s","e">>,
       <<"R","e","s","e","t","A","t","C","l","o","s","e">> >>,
    << <<"h","i","d","e","_","u","n","t","i","l","_","c","h","e","c","k","_","i","n">>,
       <<"H","i","d","e","U","n","t","i","l","C","h","e","c","k","I","n">> >>
  }
\* the historical key of a field, by the field's name
HistoricalKey(name) ==
  IF \E f \in FieldIds : FieldName[f] = name
  THEN DocumentedKey[CHOOSE f \in FieldIds : FieldName[f] = name]
  ELSE (CHOOSE p \in PartFieldKey : p[1] = name)[2]

\* the structs (and struct variants) a value holds, itself included
RECURSIVE StructsIn(_)
StructsIn(v) ==
  CASE v.k \in {"struct", "struct_variant"} ->
         {[rule |-> v.rule, fields |-> v.fields]}
         \cup UNION {StructsIn(v.fields[i].v) : i \in 1..Len(v.fields)}
    [] v.k \in {"some", "newtype_variant"} -> StructsIn(v.v)
    [] v.k = "seq" -> UNION {StructsIn(v.items[i]) : i \in 1..Len(v.items)}
    [] v.k = "map" -> UNION {StructsIn(v.entries[i][2]) : i \in 1..Len(v.entries)}
    [] OTHER -> {}

\* every present field of the structs in s is written under its historical
\* key, and that key is in the document
PresentFieldsUnderHistoricalKeys(s, doc) ==
  \A i \in 1..Len(s.fields) :
    s.fields[i].v /= None =>
      LET key == SerdeKey(s.rule, s.fields[i].name, s.fields[i].rename)
      IN  key = HistoricalKey(s.fields[i].name) /\ key \in AllKeys(doc)

\* C19: every present field, of the descriptor and of the values it holds,
\* is written under its historical key.
C19_FieldsUnderHistoricalKeys ==
  SavedOk =>
    \A f \in SetFields(agent.v) :
      /\ LaunchAgentKey[f] = DocumentedKey[f]
      /\ DocumentedKey[f] \in KeysAtDepth(SavedDocument, 1)
      /\ \A s \in StructsIn(agent.v.opt[f]) :
           PresentFieldsUnderHistoricalKeys(s, SavedDocument)

\* the same for every field but keep_alive
FieldsButKeepAliveUnderHistoricalKeys ==
  SavedOk =>
    \A f \in SetFields(agent.v) \ {"keep_alive"} :
      /\ LaunchAgentKey[f] = DocumentedKey[f]
      /\ DocumentedKey[f] \in KeysAtDepth(SavedDocument, 1)
      /\ \A s \in StructsIn(agent.v.opt[f]) :
           PresentFieldsUnderHistoricalKeys(s, SavedDocument)

\* C20: a keep-alive policy in its boolean form is written as a bare
\* boolean under the KeepAlive key.
C20_KeepAliveBoolIsBareBoolean ==
  \A b \in BOOLEAN :
    (SavedOk /\ agent.v.opt["keep_alive"] = Some(KeepAliveBool(b))) =>
      ElementsAfterKey(SavedDocument, DocumentedKey["keep_alive"], 1)
        = { IF b THEN <<"true">> ELSE <<"false">> }

(* --------------------------- keep-alive, unions ------------------------- *)

\* C21: a keep-alive policy in its object form with only crashed set to
\* true is written as a dictionary whose only entry is Crashed: true,
\* directly under the KeepAlive key.
C21_KeepAliveObjectOnlyCrashed ==
  (/\ SavedOk
   /\ SetFields(agent.v) = {"keep_alive"}
   /\ agent.v.opt["keep_alive"] = Some(KeepAliveObject(None, Some(VBool(TRUE))))) =>
    LET doc == SavedDocument IN
      /\ ElementsAfterKey(doc, DocumentedKey["keep_alive"], 1) = { <<"dict">> }
      /\ KeysAtDepth(doc, 2) = { <<"C","r","a","s","h","e","d">> }
      /\ ElementsAfterKey(doc, <<"C","r","a","s","h","e","d">>, 2) = { <<"true">> }
      /\ \A i \in 1..Len(doc) : DepthAt(doc, i) <= 2

\* the names of the variants of the union types: String, Integer, Vec,
\* Single, Many, Bool, Array and Object
UnionTagNames ==
  { <<"S","t","r","i","n","g">>, <<"I","n","t","e","g","e","r">>,
    <<"V","e","c">>, <<"S","i","n","g","l","e">>, <<"M","a","n","y">>,
    <<"B","o","o","l">>, <<"A","r","r","a","y">>,
    <<"O","b","j","e","c","t">> }

\* the fields of the descriptor that hold a union-typed value, directly or
\* inside a dictionary or a socket
UnionFields ==
  {f \in FieldIds :
     FieldType[f] \in {"StringOrF32", "StringOrVec", "SessionType",
                       "MapSocketValue", "MapMachServiceConfig"}}

\* the kinds of element a bare value starts with
BareStarts(ty) ==
  CASE ty = "StringOrF32" -> {"string", "integer", "real"}
    [] ty \in {"StringOrVec", "SessionType"} -> {"string", "array"}
    [] OTHER -> {"dict"}

\* no key of the document is the name of a variant, and each union-typed
\* field in fields starts as a bare value
NoTagKeys(fields, doc) ==
  /\ AllKeys(doc) \cap UnionTagNames = {}
  /\ \A f \in fields :
       \A e \in ElementsAfterKey(doc, DocumentedKey[f], 1) :
         e[1] \in BareStarts(FieldType[f])

\* C22: a union-typed value of a descriptor is written as the bare encoding
\* of its active variant, never as a dictionary keyed by a variant name.
C22_UnionsAreBare ==
  (SavedOk /\ SetFields(agent.v) \subseteq UnionFields) =>
    NoTagKeys(SetFields(agent.v), SavedDocument)

\* the same for every union-typed field but mach_services
UnionsButMachServicesAreBare ==
  (SavedOk /\ SetFields(agent.v) \subseteq UnionFields \ {"mach_services"}) =>
    NoTagKeys(SetFields(agent.v), SavedDocument)

\* C23: decoding the serialization of a value of a union type gives the
\* same variant with equal content; the string "80" comes back as the
\* string "80" and the integer 80 as the integer 80.
C23_UnionRoundTrip ==
  call.op = "round_trip" => call.decoded = call.value

C23_Witness ==
  /\ call.op = "round_trip"
  /\ call.union = "StringOrU32"
  /\ call.value = Variant("String", VStr(<<"8", "0">>))
  /\ call.doc = << <<"string", <<"8", "0">>>> >>
  /\ call.decoded.variant = "String"


\* the documented key of each field of a mach service
MachServiceKey ==
  [reset_at_close |-> <<"R","e","s","e","t","A","t","C","l","o","s","e">>,
   hide_until_check_in |->
     <<"H","i","d","e","U","n","t","i","l","C","h","e","c","k","I","n">>]

\* the dictionary of a built mach service has exactly the two documented
\* keys, and false under each key whose field was not supplied
BothKeysFalseWhereNotSupplied(before, service) ==
  LET doc == SerValue(service) IN
    /\ KeysAtDepth(doc, 1) = {MachServiceKey[f] : f \in SeqRange(MachServiceFields)}
    /\ \A f \in SeqRange(MachServiceFields) :
         before[f] = None =>
           ElementsAfterKey(doc, MachServiceKey[f], 1) = { <<"false">> }

\* C24: a mach service in the object form whose reset_at_close and/or
\* hide_until_check_in was not supplied can still be constructed, and its
\* dictionary holds both ResetAtClose and HideUntilCheckIn, with false
\* for each one not supplied.
C24_MachServiceDefaultsToFalse ==
  call.op = "mach_build" =>
    /\ machService.ok
    /\ BothKeysFalseWhereNotSupplied(call.before, machService.v)

\* a mach service both of whose fields were supplied is constructed and
\* its dictionary holds both keys
MachServiceFullySuppliedHasBothKeys ==
  (call.op = "mach_build" /\ FirstUninitialized(call.before, MachServiceFields) = 0) =>
    /\ machService.ok
    /\ BothKeysFalseWhereNotSupplied(call.before, machService.v)

\* C26: two save calls for descriptors with the same label and the same
\* output directory that ran side by side and both returned success leave
\* the complete rendering of one of the two descriptors in the file,
\* never a mixture or a truncation.
C26_ConcurrentSavesLeaveOneDocument ==
  (/\ \A p \in Savers : savers[p].pc = "returned" /\ savers[p].res.ok
   /\ savers[1].a.label = savers[2].a.label
   /\ savers[1].out_dir = savers[2].out_dir) =>
    fs[Stat(fs, savers[1].path).loc].data
      \in {Render(savers[p].a) : p \in Savers}

\* what stands right under the StartCalendarInterval key of the saved
\* document
UnderStartCalendarInterval ==
  ElementsAfterKey(SavedDocument, DocumentedKey["start_calendar_interval"], 1)

\* C25: the start-calendar-interval field holds a single CalendarInterval
\* or a sequence of them; the single interval the caller built and gave
\* to the descriptor is written as one bare dictionary under
\* StartCalendarInterval, a sequence as an array of dictionaries.
C25_SingleIntervalIsBareDictionary ==
  (/\ SavedOk
   /\ calendarInterval /= None /\ calendarInterval.ok
   /\ "start_calendar_interval" \in SetFields(agent.v)) =>
    /\ agent.v.opt["start_calendar_interval"] = Some(calendarInterval.v)
    /\ UnderStartCalendarInterval = { <<"dict">> }

\* the field holds a sequence, written as an array of one dictionary per
\* interval
IntervalSequenceIsArrayOfDictionaries ==
  (SavedOk /\ SetFields(agent.v) = {"start_calendar_interval"}) =>
    LET held == agent.v.opt["start_calendar_interval"].v
        doc  == SavedDocument
    IN  /\ held.k = "seq"
        /\ UnderStartCalendarInterval = { <<"array">> }
        /\ Cardinality({i \in 1..Len(doc) :
                          doc[i] = <<"dict">> /\ DepthAt(doc, i) = 2})
             = Len(held.items)

\* C27: save does not modify the descriptor, whether it returns success or
\* an error, and saving the same descriptor again to the same directory
\* targets the same path and leaves the file content of the first save.
C27_SaveLeavesDescriptorUnchanged ==
  [][SaveStep =>
       /\ agent' = agent
       /\ TargetPath(agent'.v, call'.out_dir) = TargetPath(agent.v, call'.out_dir)
       /\ (/\ call.op = "save" /\ call.res.ok
           /\ call'.out_dir = call.out_dir /\ call'.res.ok) =>
            /\ TargetNode(fs', agent'.v, call'.out_dir)
                 = TargetNode(fs, agent.v, call.out_dir)
            /\ fs' = fs]_vars

C27_Witness ==
  /\ SavedOk
  /\ nsaves = 2
  /\ call.before = Some(File(Render(agent.v)))
  /\ SavedDocument = Render(agent.v)
  /\ "program_arguments" \in SetFields(agent.v)

\* the key of a socket's path mode
SockPathModeKey ==
  <<"S","o","c","k","P","a","t","h","M","o","d","e">>

\* C28: an integer-valued umask and an integer-valued socket path mode are
\* written as plist integers (umask 18 as the integer 18), not as reals.
C28_UmaskAndPathModeAreIntegers ==
  SavedOk =>
    /\ agent.v.opt["umask"] = Some(StringOrF32Integer(18)) =>
         ElementsAfterKey(SavedDocument, DocumentedKey["umask"], 1)
           = { <<"integer", 18>> }
    /\ \A e \in ElementsAfterKey(SavedDocument, SockPathModeKey, 3) :
         e[1] = "integer"

\* the file of the last successful save stands directly inside out_dir
DirectlyInside(f, a, out_dir) ==
  LET d == Stat(f, PathOf(out_dir))
      t == Stat(f, TargetPath(a, out_dir))
  IN  /\ d.err = "OK"
      /\ t.err = "OK"
      /\ Len(t.loc) = Len(d.loc) + 1
      /\ SubSeq(t.loc, 1, Len(d.loc)) = d.loc

\* the directories of g that f does not have are out_dir or its ancestors
CreatedOnlyOutDirAndAncestors(f, g, out_dir) ==
  \A l \in DOMAIN g \ DOMAIN f :
    g[l].kind = "dir" =>
      \E q \in PathPrefixes(PathOf(out_dir)) :
        Stat(g, q).err = "OK" /\ Stat(g, q).loc = l

\* C29: for every label (empty, with separators or '..' components, or
\* starting with '/') and every output directory, the file save writes
\* lies directly inside the output directory, and save creates no
\* directory but the output directory and its ancestors.
C29_SaveStaysInsideOutDir ==
  [][(SaveStep /\ call'.res.ok) =>
       /\ DirectlyInside(fs', agent.v, call'.out_dir)
       /\ CreatedOnlyOutDirAndAncestors(fs, fs', call'.out_dir)]_vars

\* the same for labels without a path separator
SeparatorFreeLabelStaysInsideOutDir ==
  [][(SaveStep /\ call'.res.ok
        /\ \A i \in 1..Len(agent.v.label) : agent.v.label[i] /= Sep) =>
       /\ DirectlyInside(fs', agent.v, call'.out_dir)
       /\ CreatedOnlyOutDirAndAncestors(fs, fs', call'.out_dir)]_vars
====
